---- MODULE Spec2Model ----
(***************************************************************************)
(* A model of the IsoCode agent server: the tool dispatcher                *)
(* (server/tools.js), the workspace path confinement, the permission       *)
(* policy, and the session-oriented ReAct engine (server/agent.js) behind  *)
(* the HTTP routes of server/index.js.                                     *)
(***************************************************************************)
EXTENDS Integers, Sequences, FiniteSets, TLC

VARIABLES
    perms,      \* config.PERMISSIONS: permission key -> policy ("unset" when the key is absent)
    toolCall,   \* the last direct dispatcher call and what it did
    registry,   \* activeAgents.get(sessionId): the session's state object, 0 when there is none
    heap,       \* the session state objects that are still referenced
    run,        \* per /chat handler: where its runAgent call stands, and what it sent
    nreq,       \* the number of /chat requests accepted so far
    aux,        \* the handler of POST /compact and POST /switch-model
    saved,      \* the conversation file of the session: the messages last saved
    trim,       \* a call of trimForContextWindow: its arguments and what it returned
    store,      \* a call of saveConversation: the conversation and the file written
    editor,     \* the editor extension: a diff request it shows, and the file the diff is for
    nest,       \* the runAgent calls of one agent-plus request that wait on each other
    swarm       \* runSwarmWorkers: SWARM_MAX_WORKERS of the config, and the delegation in progress

toolVars == <<perms, toolCall>>

sideVars == <<trim, swarm, store, editor, nest>>

engineVars == <<registry, heap, run, nreq, aux, saved>>

vars == <<perms, toolCall, registry, heap, run, nreq, aux, saved, trim, swarm, store, editor, nest>>

(***************************************************************************)
(* Paths.  A name is a sequence of characters, a location is a sequence of *)
(* names, and a path argument is a JavaScript value: undefined/null, or a  *)
(* string that is absolute or relative and holds names and ".." parts.     *)
(***************************************************************************)
MaxPathLen == 2

W == <<"w">>
W2 == <<"w", "2">>
A == <<"a">>
DotDot == <<".", ".">>

Names == {W, W2, A}

RECURSIVE SeqsUpTo(_, _)
SeqsUpTo(S, n) ==
    IF n = 0 THEN {<<>>}
    ELSE LET shorter == SeqsUpTo(S, n - 1)
         IN  shorter \cup {Append(s, x) : s \in {t \in shorter : Len(t) = n - 1}, x \in S}

NullPath == [null |-> TRUE, abs |-> FALSE, segs |-> <<>>]

StringPaths == [null : {FALSE}, abs : BOOLEAN, segs : SeqsUpTo(Names \cup {DotDot}, MaxPathLen)]

PathArgs == StringPaths \cup {NullPath}

\* the workspace root of the model: /w
WorkspaceRootDir == <<W>>

\* path.normalize on the parts of a path: ".." pops a name, and stays at "/" on the root
RECURSIVE normalize(_, _)
normalize(stack, segs) ==
    IF segs = <<>> THEN stack
    ELSE IF Head(segs) = DotDot
         THEN normalize(IF stack = <<>> THEN <<>> ELSE SubSeq(stack, 1, Len(stack) - 1), Tail(segs))
         ELSE normalize(Append(stack, Head(segs)), Tail(segs))

\* path.resolve(root, p): an absolute p replaces the root
pathResolve(root, p) ==
    IF p.abs THEN normalize(<<>>, p.segs) ELSE normalize(root, p.segs)

\* the string of a location: "/" for the root directory, else "/name/name"
RECURSIVE render(_)
render(loc) ==
    IF loc = <<>> THEN <<>> ELSE <<"/">> \o Head(loc) \o render(Tail(loc))

pathString(loc) == IF loc = <<>> THEN <<"/">> ELSE render(loc)

\* String.prototype.startsWith
startsWith(s, prefix) ==
    Len(prefix) <= Len(s) /\ SubSeq(s, 1, Len(prefix)) = prefix

\* what "inside the workspace" means: the root itself or a location below it
InsideWorkspace(loc, root) ==
    Len(root) <= Len(loc) /\ SubSeq(loc, 1, Len(root)) = root

\* tools.js resolvePath: throws (ok = FALSE) or returns the resolved location
resolvePath(filePath, workspaceRoot) ==
    IF filePath.null THEN [ok |-> FALSE, loc |-> <<>>]
    ELSE LET resolved == pathResolve(workspaceRoot, filePath)
             normalizedRoot == workspaceRoot
         IN  IF ~startsWith(pathString(resolved), pathString(normalizedRoot))
             THEN [ok |-> FALSE, loc |-> <<>>]
             ELSE [ok |-> TRUE, loc |-> resolved]

\* agent.js resolvePathInWorkspace: leading slashes are stripped, and the
\* prefix test is against the root followed by the separator
resolvePathInWorkspace(workspaceRoot, filePath) ==
    IF filePath.null THEN
        \* String(undefined) is the relative name "undefined": a name below the root
        [ok |-> TRUE, loc |-> Append(workspaceRoot, A)]
    ELSE LET resolved == normalize(workspaceRoot, filePath.segs)
             normalizedRoot == pathString(workspaceRoot) \o <<"/">>
         IN  IF resolved # workspaceRoot /\ ~startsWith(pathString(resolved), normalizedRoot)
             THEN [ok |-> FALSE, loc |-> <<>>]
             ELSE [ok |-> TRUE, loc |-> resolved]

\* browser.js analyze_image: path.isAbsolute(p) ? p : path.join(wsRoot, p);
\* the file system then follows the ".." parts of the result
imageAbsPath(imagePath, wsRoot) ==
    IF imagePath.abs THEN normalize(<<>>, imagePath.segs) ELSE normalize(wsRoot, imagePath.segs)

(***************************************************************************)
(* The tool dispatcher (tools.js runTool).  A call names a tool and gives  *)
(* a path argument and a payload (the diff, the content, the search text): *)
(* undefined, the empty string, or a text.  fits says whether the text     *)
(* matches the current file (the patch applies, the search text occurs).   *)
(***************************************************************************)
Payloads == {"null", "empty", "text"}

DispatcherTools ==
    {"apply_diff", "read_file", "write_file", "replace_in_file", "run_shell",
     "glob_files", "analyze_image", "git_status"}

\* the key under which a tool's case asks withPermission, "" when the case asks nothing
permissionKey(tool) ==
    CASE tool = "read_file" -> "read_file"
      [] tool = "write_file" -> "write_file"
      [] tool = "replace_in_file" -> "replace_in_file"
      [] tool = "run_shell" -> "run_shell"
      [] tool = "git_status" -> "run_shell"
      [] OTHER -> ""

\* the keys POST /config sets in the model
ConfigKeys == {"write_file", "run_shell", "apply_diff"}

PermissionKeys == {"read_file", "write_file", "replace_in_file", "run_shell", "apply_diff"}

Policies == {"always", "ask", "never"}

\* config.js: the table the server starts with
DefaultPermissions ==
    [k \in PermissionKeys |->
        IF k \in {"run_shell", "write_file", "replace_in_file"} THEN "ask" ELSE "unset"]

\* config.PERMISSIONS?.[toolName] || 'always'
policyOf(toolName) ==
    IF toolName \in DOMAIN perms /\ perms[toolName] # "unset" THEN perms[toolName] ELSE "always"

\* tools.js withPermission: TRUE when actionFn is called, FALSE when it throws
withPermission(toolName, ctx) ==
    LET policy == policyOf(toolName)
    IN  IF policy = "never" THEN FALSE
        ELSE IF ctx.autoMode THEN TRUE
        ELSE IF policy = "ask" THEN FALSE
        ELSE TRUE

NoResult == [ran |-> FALSE, ok |-> FALSE, reads |-> {}, writes |-> {}]

Denied == [ran |-> FALSE, ok |-> FALSE, reads |-> {}, writes |-> {}]

Threw == [ran |-> TRUE, ok |-> FALSE, reads |-> {}, writes |-> {}]

\* the body of one case of runTool, once permission is settled.
\* ran: the tool's body was entered; ok: it returned no error;
\* reads, writes: the locations of the file system it touched.
toolBody(tool, args, fits, root) ==
    CASE tool = "apply_diff" ->
            LET r == resolvePath(args.path, root)
            IN  IF ~r.ok THEN Threw
                ELSE IF args.payload = "null" THEN
                    \* applyPatch(original, undefined) throws after the file was read
                    [ran |-> TRUE, ok |-> FALSE, reads |-> {r.loc}, writes |-> {}]
                ELSE IF args.payload = "text" /\ ~fits THEN
                    [ran |-> TRUE, ok |-> FALSE, reads |-> {r.loc}, writes |-> {}]
                ELSE [ran |-> TRUE, ok |-> TRUE, reads |-> {r.loc}, writes |-> {r.loc}]
      [] tool = "read_file" ->
            LET r == resolvePath(args.path, root)
            IN  IF ~r.ok THEN Threw
                ELSE [ran |-> TRUE, ok |-> fits, reads |-> IF fits THEN {r.loc} ELSE {}, writes |-> {}]
      [] tool = "write_file" ->
            LET r == resolvePath(args.path, root)
            IN  IF ~r.ok THEN Threw
                \* fsp.writeFile(targetPath, args.content ?? '')
                ELSE [ran |-> TRUE, ok |-> TRUE, reads |-> {}, writes |-> {r.loc}]
      [] tool = "replace_in_file" ->
            LET r == resolvePath(args.path, root)
            IN  IF ~r.ok THEN Threw
                ELSE IF args.payload = "empty" \/ (args.payload = "text" /\ fits)
                     THEN [ran |-> TRUE, ok |-> TRUE, reads |-> {r.loc}, writes |-> {r.loc}]
                     ELSE [ran |-> TRUE, ok |-> FALSE, reads |-> {r.loc}, writes |-> {}]
      [] tool = "run_shell" ->
            \* payload is the command, path the cwd argument
            IF args.payload # "text" THEN [ran |-> TRUE, ok |-> FALSE, reads |-> {}, writes |-> {}]
            ELSE IF args.path.null \/ (~args.path.abs /\ args.path.segs = <<>>)
                 THEN [ran |-> TRUE, ok |-> TRUE, reads |-> {root}, writes |-> {}]
                 ELSE LET r == resolvePath(args.path, root)
                      IN  IF ~r.ok THEN Threw
                          ELSE [ran |-> TRUE, ok |-> TRUE, reads |-> {r.loc}, writes |-> {}]
      [] tool = "glob_files" ->
            IF args.payload # "text" THEN [ran |-> TRUE, ok |-> FALSE, reads |-> {}, writes |-> {}]
            ELSE LET dirPath == IF args.path.null \/ (~args.path.abs /\ args.path.segs = <<>>)
                                THEN [null |-> FALSE, abs |-> FALSE, segs |-> <<>>]
                                ELSE args.path
                     r == resolvePath(dirPath, root)
                 IN  IF ~r.ok THEN Threw
                     ELSE [ran |-> TRUE, ok |-> TRUE, reads |-> {r.loc}, writes |-> {}]
      [] tool = "analyze_image" ->
            IF args.path.null THEN Threw
            ELSE LET absPath == imageAbsPath(args.path, root)
                 \* fits: the file exists (fs.existsSync), and is then read
                 IN  [ran |-> TRUE, ok |-> fits, reads |-> IF fits THEN {absPath} ELSE {}, writes |-> {}]
      [] tool = "git_status" ->
            [ran |-> TRUE, ok |-> TRUE, reads |-> {root}, writes |-> {}]
      [] OTHER -> [ran |-> FALSE, ok |-> FALSE, reads |-> {}, writes |-> {}]

\* the policy that applies to a tool: the one under the key its case consults,
\* and the one under its own name when its case consults none
toolPolicy(tool) ==
    policyOf(IF permissionKey(tool) # "" THEN permissionKey(tool) ELSE tool)

\* tools.js runTool(tool, args, ctx)
runTool(tool, args, ctx, fits) ==
    LET key == permissionKey(tool)
    IN  IF key # "" /\ ~withPermission(key, ctx) THEN Denied
        ELSE toolBody(tool, args, fits, WorkspaceRootDir)

NoCall ==
    [tool |-> "none", path |-> NullPath, payload |-> "null", autoMode |-> FALSE,
     fits |-> FALSE, policy |-> "always", res |-> NoResult]

PayloadsFor(tool) ==
    IF tool \in {"apply_diff", "write_file", "replace_in_file"} THEN Payloads ELSE {"text"}

FitsFor(tool, payload) ==
    IF tool \in {"apply_diff", "replace_in_file", "read_file", "analyze_image"} /\ payload = "text"
    THEN BOOLEAN ELSE {TRUE}

ToolsInit ==
    /\ perms = DefaultPermissions
    /\ toolCall = NoCall

\* POST /config: Object.assign(runtime.PERMISSIONS, incoming.PERMISSIONS)
Config(key, policy) ==
    /\ perms' = [perms EXCEPT ![key] = policy]
    /\ UNCHANGED <<toolCall, engineVars, sideVars>>

\* a call of the dispatcher by a caller that holds no earlier result
CallTool(tool, path, payload, autoMode, fits) ==
    /\ toolCall = NoCall
    /\ toolCall' = [tool |-> tool, path |-> path, payload |-> payload, autoMode |-> autoMode,
                    fits |-> fits, policy |-> toolPolicy(tool),
                    res |-> runTool(tool, [path |-> path, payload |-> payload],
                                    [autoMode |-> autoMode], fits)]
    /\ UNCHANGED <<perms, engineVars, sideVars>>

\* the caller has taken the result of its call
ReturnTool ==
    /\ toolCall # NoCall
    /\ toolCall' = NoCall
    /\ UNCHANGED <<perms, engineVars, sideVars>>

(***************************************************************************)
(* The ReAct engine (agent.js runAgent).  One session id is modelled; its  *)
(* state object lives on the heap and the registry (activeAgents) points   *)
(* at it.  A handler's call of runAgent advances in atomic pieces, each     *)
(* from one await to the next: the awaits that suspend are the session      *)
(* initialisation, callLLM, runTool inside executeToolAction and the        *)
(* summarising LLM call of autoSaveWithSummary.                             *)
(***************************************************************************)
MaxSteps == 2

MaxRequests == 2

\* the maxSteps of the runs that follow a plan
PlanSteps == 5

\* the maxSteps of the runs whose calls fail or return no directive
ReplySteps == 3

\* how many /compact and /switch-model requests a behaviour has
MaxAux == 2

\* the maxSteps of the runs that read full-size files
CompactSteps == 4

\* the maxSteps of a runAgent call that passes none
DefaultMaxSteps == 12

NO_PROGRESS_LIMIT == 10

Handlers == {"h1", "h2"}

ObjIds == {1, 2, 3}

NoDiff == [set |-> FALSE, filePath |-> NullPath, diff |-> "null"]

\* the state object runAgent builds for a new session
newState(agentPlus) ==
    [agentPlus |-> agentPlus,
     messages |-> <<"system", "user">>,
     pendingDiff |-> NoDiff,
     retryCount |-> 0,
     completedTasks |-> 0,
     totalTasks |-> 0,
     consecutiveFinals |-> 0,
     consecutiveStepsWithoutAction |-> 0,
     stopRequested |-> FALSE,
     compactCount |-> 0,
     swarmDisabled |-> FALSE,
     model |-> "m0",   \* the model named by the request that created the session
     nauto |-> 0,    \* how many times auto-compaction has rewritten the conversation
     step |-> 0]

\* n numbers the requests; pending records whether the session had a pending
\* diff when the request came in
NoRequest ==
    [n |-> 0, message |-> FALSE, decision |-> "none", agentPlus |-> FALSE, pending |-> FALSE,
     maxSteps |-> 0, big |-> FALSE]

NoDispatch ==
    [tool |-> "none", path |-> NullPath, payload |-> "null", by |-> "none",
     agentPlus |-> FALSE, big |-> FALSE, res |-> NoResult]

\* a handler with no runAgent call in progress and nothing sent;
\* noact counts the run's consecutive iterations that produced no action, nudges
\* its continuation nudges; snap is the conversation compactConversation was given
IdleRun ==
    [pc |-> "idle", ref |-> 0, req |-> NoRequest, events |-> <<>>, queue |-> <<>>,
     cur |-> NoDispatch, calls |-> 0, bnd |-> 0, ndisp |-> 0, outcome |-> "none",
     noact |-> 0, nudges |-> 0, snap |-> <<>>]

FinalEvents ==
    {"final", "final_stopped", "final_cap", "final_noprogress", "final_nosession",
     "final_nopending", "final_llmfail", "final_llmfail_notfound", "final_noresponse",
     "final_raised"}

\* the role of a message of the conversation
roleOf(msg) ==
    CASE msg = "system" -> "system"
      [] msg \in {"user", "user_big", "user_nudge_act", "user_nudge_tasks",
                  "user_nudge_json", "user_nudge_swarm"} -> "user"
      [] msg \in {"tool", "tool_big", "tool_swarm", "tool_swarm_failed"} -> "tool"
      [] OTHER -> "assistant"

\* the assistant messages that record a reply of the model
FromModel ==
    {"a_action", "a_thought", "a_final", "a_diff_request", "a_delegate", "a_text", "a_unknown"}

\* those whose content is the JSON text of a directive
Directives == {"a_action", "a_thought", "a_final", "a_diff_request", "a_delegate"}

\* the body of a /chat request that reaches runAgent
RequestsWith(caps) ==
    {r \in [n : {0}, message : BOOLEAN, decision : {"none", "approve", "reject"},
            agentPlus : BOOLEAN, pending : {FALSE}, maxSteps : caps, big : {FALSE}] :
        r.message \/ r.decision # "none"}

Requests == RequestsWith({MaxSteps})

\* the user message of request r in the conversation; big: a very long message
userMessage(r) == IF r.big THEN "user_big" ELSE "user"

(***************************************************************************)
(* The pieces of runAgent work on a record K: the state object o, and the  *)
(* handler's program counter, stream of sent events and dispatch record.   *)
(* del says that activeAgents.delete(sessionId) was called.                *)
(***************************************************************************)
emit(K, e) == [K EXCEPT !.events = Append(@, e)]

push(K, m) == [K EXCEPT !.o.messages = Append(@, m)]

finish(K, outcome) == [K EXCEPT !.pc = "idle", !.outcome = outcome, !.queue = <<>>]

\* after the loop: the safety cap was reached; autoSaveWithSummary summarises
\* with an LLM call when there are more than 6 messages
safetyCap(K) ==
    LET K1 == [K EXCEPT !.saved = K.o.messages]
    IN  IF Len(K1.o.messages) > 6 THEN [K1 EXCEPT !.pc = "capsummary"]
        ELSE finish(emit(K1, "final_cap"), "cap")

(***************************************************************************)
(* The context manager.  Sizes are in tokens as estimateMessagesTokens     *)
(* counts them, scaled: a short message is 1 token, a full-size tool       *)
(* result ("tool_big") is 8, a very long user message ("user_big") is 32,  *)
(* and the budget is ContextBudget.                                        *)
(***************************************************************************)
ContextBudget == 32

msgTokens(msg) ==
    CASE msg = "tool_big" -> 8
      [] msg = "user_big" -> 32
      [] OTHER -> 1

RECURSIVE estimateMessagesTokens(_)
estimateMessagesTokens(messages) ==
    IF messages = <<>> THEN 0
    ELSE msgTokens(Head(messages)) + estimateMessagesTokens(Tail(messages))

\* tokens > maxTokens * 0.75
shouldAutoCompact(messages, maxTokens) ==
    4 * estimateMessagesTokens(messages) > 3 * maxTokens

nothingToCompact_short(messages) == Len(messages) <= 3

\* compactConversation returns the messages as they are, without an LLM call
nothingToCompact(messages) ==
    \/ Len(messages) <= 3
    \/ (Len(messages) - 1) - 4 < 2

compactResult_keepThree(messages) ==
    <<messages[1], "a_summary">> \o SubSeq(messages, Len(messages) - 2, Len(messages))

\* compactConversation: [system, compactedMessage, ...toKeep], toKeep the last four
compactResult(messages) ==
    <<messages[1], "a_summary">> \o SubSeq(messages, Len(messages) - 3, Len(messages))

(***************************************************************************)
(* trimForContextWindow, on the sizes of the messages.  A message is its   *)
(* role and the length of its content in characters; lengths stand for     *)
(* strings, so smartTruncate gives the length of the string it builds.     *)
(***************************************************************************)
Min(a, b) == IF a <= b THEN a ELSE b

\* Math.ceil(String(text).length / 3.5); 0 for the empty string
estimateTokens(len) == IF len = 0 THEN 0 ELSE (2 * len + 6) \div 7

roleLength(role) ==
    CASE role = "system" -> 6
      [] role = "assistant" -> 9
      [] OTHER -> 4    \* "user", "tool"

RECURSIVE estimateSizedTokens(_)
\* estimateMessagesTokens on messages given by their sizes
estimateSizedTokens(messages) ==
    IF messages = <<>> THEN 0
    ELSE 4 + estimateTokens(roleLength(Head(messages).role))
           + estimateTokens(Head(messages).len)
           + estimateSizedTokens(Tail(messages))

RECURSIVE digits(_)
\* the number of characters of a natural number in decimal
digits(n) == IF n < 10 THEN 1 ELSE 1 + digits(n \div 10)

\* the length of smartTruncate(text, maxChars) for a text of len characters:
\* head, "\n\n... [", omitted, " characters omitted] ...\n\n", tail
smartTruncate(len, maxChars) ==
    IF len = 0 \/ len <= maxChars THEN len
    ELSE LET headSize == (7 * maxChars) \div 10
             tailSize == (2 * maxChars) \div 10
             head == Min(headSize, len)
             \* text.slice(-0) is the whole text
             tail == IF tailSize = 0 THEN len ELSE Min(tailSize, len)
             omitted == len - headSize - tailSize
         IN  head + 7 + (IF omitted < 0 THEN 1 + digits(-omitted) ELSE digits(omitted))
                  + 27 + tail

RECURSIVE fitBackwards(_, _, _, _, _)
\* the loop of trimForContextWindow from message i of rest down to the first
fitBackwards(rest, i, usedTokens, available, kept) ==
    IF i = 0 THEN kept
    ELSE LET msg == rest[i]
             tokens == estimateTokens(msg.len) + 4
         IN  IF usedTokens + tokens <= available
             THEN fitBackwards(rest, i - 1, usedTokens + tokens, available, <<msg>> \o kept)
             ELSE IF usedTokens + 100 <= available
             THEN LET remainingChars == (7 * (available - usedTokens - 20)) \div 2
                  IN  IF remainingChars > 200
                      THEN <<[msg EXCEPT !.len = smartTruncate(msg.len, remainingChars)]>> \o kept
                      ELSE kept
             ELSE kept

trimForContextWindow(messages, maxTokens) ==
    IF Len(messages) <= 2 THEN messages
    ELSE LET budget == IF maxTokens = 0 THEN 6000 ELSE maxTokens
             system == messages[1]
             available == budget - estimateTokens(system.len) - 1024
         IN  IF available <= 0
             THEN <<[system EXCEPT !.len = smartTruncate(system.len, (7 * budget) \div 4)],
                    messages[Len(messages)]>>
             ELSE <<system>> \o fitBackwards(Tail(messages), Len(messages) - 1, 0, available, <<>>)

\* how many messages follow the system message in the calls that are checked
MaxTrimLen == 3

\* the lengths of the contents: empty, a line, a page, a file, a long paste
ContentSizes == {0, 70, 2100, 14000, 70000}

\* the budgets: a small context window, the fallback of the engine
Budgets == {2048, 16000}

SizedMessages == [role : {"user", "assistant", "tool"}, len : ContentSizes]

TrimInputs ==
    {[messages |-> <<[role |-> "system", len |-> s]>> \o rest, maxTokens |-> b,
      done |-> FALSE, out |-> <<>>] :
        s \in {2100, 14000}, b \in Budgets,
        rest \in UNION {[1..k -> SizedMessages] : k \in 0..MaxTrimLen}}

NoTrim == [messages |-> <<>>, maxTokens |-> 0, done |-> FALSE, out |-> <<>>]

\* the value of SWARM_MAX_WORKERS in the user's config file: absent, a string
\* that is no number, or a number, kept in halves (v = 3 is 1.5)
Undefined == [kind |-> "undefined", v |-> 0]

TextValue == [kind |-> "text", v |-> 0]

Num(halves) == [kind |-> "num", v |-> halves]

NoRes == [task |-> 0, model |-> 0, kind |-> "none"]

\* no delegation in progress; agg is the tasks of the results the last delegation
\* aggregated, in their order there, and ooo whether a worker of it returned
\* before a worker of an earlier task
NoSwarm ==
    [cfg |-> Undefined, pc |-> "idle", h |-> "none", n |-> 0, nmodels |-> 0, i2 |-> 0,
     chunk |-> <<>>, results |-> <<>>, ooo |-> FALSE, agg |-> <<>>]

\* no call of saveConversation
NoStore == [before |-> <<>>, messages |-> <<>>, done |-> FALSE, file |-> <<>>]

\* no diff request at the editor
NoEditor ==
    [pc |-> "none", file |-> <<>>, diff |-> [start |-> 1, ops |-> <<>>], backup |-> <<>>,
     proposed |-> <<>>, wrote |-> FALSE, decision |-> "none", obs |-> "none"]

\* no runAgent call of an agent-plus request
NoNest == [stack |-> <<>>, lost |-> FALSE]

SideInit == trim = NoTrim /\ swarm = NoSwarm /\ store = NoStore /\ editor = NoEditor /\ nest = NoNest

\* a call of trimForContextWindow returns
Trim ==
    /\ ~trim.done
    /\ trim' = [trim EXCEPT !.done = TRUE,
                            !.out = trimForContextWindow(trim.messages, trim.maxTokens)]
    /\ UNCHANGED <<toolVars, engineVars, swarm, store, editor, nest>>

stopCheck_keepFlag(K) ==
    IF K.o.stopRequested THEN finish(emit(K, "final_stopped"), "stopped") ELSE K

\* the top of a loop iteration: if (state.stopRequested) {...; return;}
stopCheck(K) ==
    IF K.o.stopRequested
    THEN finish(emit([K EXCEPT !.o.stopRequested = FALSE], "final_stopped"), "stopped")
    ELSE K

\* the call of the model of an iteration
callLLM(K) == [K EXCEPT !.pc = "llm", !.calls = @ + 1]

\* auto-compaction before the call: compactConversation is awaited when there
\* is something to compact
autoCompact(K) ==
    IF /\ K.o.compactCount < 3
       /\ shouldAutoCompact(K.o.messages, ContextBudget)
       /\ ~nothingToCompact(K.o.messages)
    THEN [K EXCEPT !.pc = "compact", !.snap = K.o.messages]
    ELSE callLLM(K)

\* compactConversation has returned to the loop: the conversation is replaced
autoCompacted(K) ==
    callLLM([K EXCEPT !.o.messages = compactResult(K.snap),
                      !.o.compactCount = @ + 1,
                      !.o.nauto = @ + 1,
                      !.snap = <<>>])

\* the loop condition and the checks at the top of an iteration, up to callLLM
loopTop(K) ==
    IF K.o.step >= K.maxSteps THEN safetyCap(K)
    ELSE LET K1 == stopCheck([K EXCEPT !.bnd = @ + 1])
         IN  IF K1.outcome = "stopped" THEN K1
             ELSE IF K1.o.consecutiveStepsWithoutAction >= NO_PROGRESS_LIMIT
                  THEN finish(emit(K1, "final_noprogress"), "noprogress")
                  ELSE autoCompact(K1)

\* continue: state.step++ and the next iteration
continue(K) == loopTop([K EXCEPT !.o.step = @ + 1])

\* the workspace-relative path of a location below the root
relativePath(loc) ==
    [null |-> FALSE, abs |-> FALSE,
     segs |-> SubSeq(loc, Len(WorkspaceRootDir) + 1, Len(loc))]

truthyPath(p) == ~p.null /\ (p.abs \/ p.segs # <<>>)

GatedTools == {"apply_diff", "write_file", "replace_in_file"}

ExternalBrowserTools == {"mcp_list_tools", "mcp_call_tool", "perform_browser_task"}

\* executeToolAction: the conditions under which an action of agent mode is
\* turned into a diff_request
gateApplies(act) ==
    \/ act.tool = "apply_diff" /\ truthyPath(act.path) /\ act.payload \notin {"null", "empty"}
    \/ act.tool = "write_file" /\ ~act.path.null /\ act.payload # "null"
    \/ act.tool = "replace_in_file" /\ ~act.path.null

\* the diff of the diff_request made from an action
gateDiff(act) == IF act.tool = "apply_diff" THEN act.payload ELSE "text"

observe_silent(K, act, res) ==
    LET K1 == push(K, IF act.big /\ res.ok THEN "tool_big" ELSE "tool")
    IN  [K1 EXCEPT !.saved = K1.o.messages]

\* after the observation of a tool is recorded: messages.push, send, open_file
observe(K, act, res) ==
    LET K1 == emit(push(K, IF act.big /\ res.ok THEN "tool_big" ELSE "tool"), "observation")
        K2 == IF /\ res.ok
                 /\ act.tool \in {"write_file", "replace_in_file"}
                 /\ truthyPath(act.path)
                 /\ resolvePathInWorkspace(WorkspaceRootDir, act.path).ok
              THEN emit(K1, "open_file")
              ELSE K1
    IN  \* saveConversation(sessionId, messages)
        [K2 EXCEPT !.saved = K2.o.messages]

\* executeToolAction up to its first await or its return; status is what it
\* returned ("continue", "stop") or "await" while runTool is pending
executeToolAction(K, act) ==
    IF ~K.o.agentPlus /\ act.tool \in ExternalBrowserTools THEN
        [K |-> emit(push(K, "tool"), "observation"), status |-> "continue"]
    ELSE IF ~K.o.agentPlus /\ gateApplies(act) THEN
        LET r == resolvePathInWorkspace(WorkspaceRootDir, act.path)
        IN  IF ~r.ok
            THEN [K |-> observe(K, act, Threw), status |-> "continue"]
            ELSE [K |-> [emit(K, "diff_request") EXCEPT
                            !.o.pendingDiff = [set |-> TRUE, filePath |-> relativePath(r.loc),
                                               diff |-> gateDiff(act)]],
                  status |-> "stop"]
    ELSE
        [K |-> [K EXCEPT !.pc = "tool",
                         !.ndisp = @ + 1,
                         !.cur = [tool |-> act.tool, path |-> act.path, payload |-> act.payload,
                                  by |-> "action", agentPlus |-> K.o.agentPlus,
                                  big |-> act.big,
                                  res |-> runTool(act.tool, [path |-> act.path, payload |-> act.payload],
                                                  [autoMode |-> TRUE], act.fits)]],
         status |-> "await"]

\* the actions of a reply, in order: send, messages.push, executeToolAction;
\* the rest waits in queue while a tool is pending
RECURSIVE runCalls(_, _)
runCalls(K, calls) ==
    IF calls = <<>> THEN continue([K EXCEPT !.queue = <<>>])
    ELSE LET x == executeToolAction(push(emit(K, "action"), "a_action"), Head(calls))
         IN  CASE x.status = "continue" -> runCalls(x.K, Tail(calls))
               [] x.status = "stop" -> finish(x.K, "diff")
               [] OTHER -> [x.K EXCEPT !.queue = Tail(calls)]

\* the auto-approval of a diff_request in agent-plus mode
autoApply(K, reply) ==
    LET res == runTool("apply_diff", [path |-> reply.path, payload |-> reply.payload],
                       [autoMode |-> TRUE], reply.fits)
        K1 == [K EXCEPT !.ndisp = @ + 1,
                        !.cur = [tool |-> "apply_diff", path |-> reply.path,
                                 payload |-> reply.payload, by |-> "auto",
                                 agentPlus |-> K.o.agentPlus, big |-> FALSE, res |-> res],
                        !.o.pendingDiff = NoDiff]
    IN  continue(emit(push(K1, IF res.ok THEN "obs_auto_ok" ELSE "obs_auto_failed"), "observation"))

trulyDone_keepsSession(K) ==
    LET K1 == [K EXCEPT !.saved = K.o.messages]
    IN  IF Len(K1.o.messages) > 6 THEN [K1 EXCEPT !.pc = "summary"]
        ELSE finish(K1, "final")

\* the end of a run on a final that is accepted: autoSaveWithSummary, which
\* summarises with an LLM call when there are more than 6 messages, then
\* activeAgents.delete(sessionId)
trulyDone(K) ==
    LET K1 == [K EXCEPT !.saved = K.o.messages]
    IN  IF Len(K1.o.messages) > 6 THEN [K1 EXCEPT !.pc = "summary"]
        ELSE [finish(K1, "final") EXCEPT !.del = TRUE]

\* the thought-only tail of an iteration: the counters, and the nudge to act
thoughtOnly(K) ==
    LET K1 == [K EXCEPT !.o.consecutiveFinals = 0,
                        !.o.consecutiveStepsWithoutAction = @ + 1,
                        !.noact = @ + 1]
    IN  continue(IF K1.o.consecutiveStepsWithoutAction >= 2
                 THEN push(K1, "user_nudge_act") ELSE K1)

\* a final of the model while planned tasks remain: the continuation nudge
finalNudge(K) ==
    continue(emit([push(K, "user_nudge_tasks") EXCEPT !.nudges = @ + 1, !.noact = @ + 1],
                  "thought"))

delegate_ignoresFlag(K) == [emit(push(K, "a_delegate"), "thought") EXCEPT !.pc = "swarm"]

\* a delegate directive in agent-plus mode, up to the await of runSwarmWorkers
delegate(K) ==
    LET K1 == push(K, "a_delegate")
    IN  IF K1.o.swarmDisabled
        THEN continue(emit([push(K1, "user_nudge_swarm") EXCEPT
                               !.o.consecutiveStepsWithoutAction = 0,
                               !.noact = @ + 1], "thought"))
        ELSE [emit(K1, "thought") EXCEPT !.pc = "swarm"]

\* runSwarmWorkers has returned: its results are in the conversation
swarmSucceeded(K) ==
    continue([emit(push(K, "tool_swarm"), "observation") EXCEPT
                 !.o.consecutiveStepsWithoutAction = 0, !.noact = @ + 1])

\* runSwarmWorkers has thrown: delegation is disabled for the session
swarmFailed(K) ==
    continue([emit(emit(push(K, "tool_swarm_failed"), "observation"), "thought") EXCEPT
                 !.o.swarmDisabled = TRUE,
                 !.o.consecutiveStepsWithoutAction = 0, !.noact = @ + 1])

\* an exception leaves runAgent: the catch of /chat sends a final with the error
raise(K) == finish(emit(K, "final_raised"), "raised")

\* one iteration of the loop from the return of callLLM on
processReply(K0, reply) ==
    LET K == IF reply.kind = "error" THEN K0 ELSE [K0 EXCEPT !.o.retryCount = 0]
    IN  CASE reply.kind = "error" ->
                IF K.o.retryCount < 2 /\ ~reply.notFound
                THEN continue(emit([K EXCEPT !.o.retryCount = @ + 1, !.noact = @ + 1],
                                   "thought_retry"))
                ELSE finish(emit(K, IF reply.notFound THEN "final_llmfail_notfound"
                                    ELSE "final_llmfail"), "llmfail")
          [] reply.kind = "tool_calls" ->
                runCalls([K EXCEPT !.o.consecutiveStepsWithoutAction = 0, !.noact = 0],
                         reply.calls)
          [] reply.kind = "text" ->
                continue([push(push(K, "a_text"), "user_nudge_json") EXCEPT !.noact = @ + 1])
          [] reply.kind = "empty" ->
                finish(emit(K, "final_noresponse"), "noresponse")
          [] reply.kind = "null" ->
                \* JSON.parse gives null: parsed.type throws a TypeError
                raise(K)
          [] reply.kind = "delegate" ->
                IF K.o.agentPlus /\ reply.tasks > 0
                THEN delegate(K)
                ELSE \* not agent-plus: sent and pushed as it is, a thought-only step
                     thoughtOnly(push(emit(K, "delegate"), "a_delegate"))
          [] reply.kind = "unknown" ->
                \* a number, or an object of no known type: sent and pushed as it is
                thoughtOnly(push(emit(K, "unknown"), "a_unknown"))
          [] reply.kind = "thought" ->
                LET K1 == [K EXCEPT
                             !.o.totalTasks = IF reply.tasks > 0 THEN reply.tasks ELSE @,
                             !.o.completedTasks = IF reply.progress THEN @ + 1 ELSE @]
                IN  thoughtOnly(push(emit(K1, "thought"), "a_thought"))
          [] reply.kind = "final" ->
                LET K1 == [push(emit(K, "final"), "a_final") EXCEPT !.o.consecutiveFinals = @ + 1]
                IN  IF /\ K1.o.totalTasks > 0
                       /\ K1.o.completedTasks < K1.o.totalTasks
                       /\ K1.o.consecutiveFinals <= 2
                    THEN finalNudge(K1)
                    ELSE trulyDone(K1)
          [] reply.kind = "diff_request" ->
                LET K1 == [push(emit(K, "diff_request"), "a_diff_request") EXCEPT
                             !.o.consecutiveStepsWithoutAction = 0,
                             !.noact = 0,
                             !.o.pendingDiff = [set |-> TRUE, filePath |-> reply.path,
                                                diff |-> reply.payload]]
                IN  IF K1.o.agentPlus THEN autoApply(K1, reply) ELSE finish(K1, "diff")
          [] OTHER ->  \* "action"
                runCalls([K EXCEPT !.o.consecutiveFinals = 0,
                                   !.o.consecutiveStepsWithoutAction = 0,
                                   !.noact = 0], <<reply>>)

applyDecision_rejectKeeps(K, decision, fits) ==
    IF decision = "approve" THEN
        LET pd == K.o.pendingDiff
            res == runTool("apply_diff", [path |-> pd.filePath, payload |-> pd.diff],
                           [autoMode |-> TRUE], fits)
            K1 == [K EXCEPT !.ndisp = @ + 1,
                            !.cur = [tool |-> "apply_diff", path |-> pd.filePath,
                                     payload |-> pd.diff, by |-> "approve",
                                     agentPlus |-> K.o.agentPlus, big |-> FALSE, res |-> res]]
        IN  [push(K1, IF res.ok THEN "obs_approved" ELSE "obs_failed") EXCEPT
                !.o.pendingDiff = NoDiff]
    ELSE push(K, "obs_rejected")

\* the decision branch of runAgent on a session with a pending diff: on approve
\* the stored diff is applied through the dispatcher; an observation is pushed
\* and the pending diff cleared
applyDecision(K, decision, fits) ==
    IF decision = "approve" THEN
        LET pd == K.o.pendingDiff
            res == runTool("apply_diff", [path |-> pd.filePath, payload |-> pd.diff],
                           [autoMode |-> TRUE], fits)
            K1 == [K EXCEPT !.ndisp = @ + 1,
                            !.cur = [tool |-> "apply_diff", path |-> pd.filePath,
                                     payload |-> pd.diff, by |-> "approve",
                                     agentPlus |-> K.o.agentPlus, big |-> FALSE, res |-> res]]
        IN  [push(K1, IF res.ok THEN "obs_approved" ELSE "obs_failed") EXCEPT
                !.o.pendingDiff = NoDiff]
    ELSE [push(K, "obs_rejected") EXCEPT !.o.pendingDiff = NoDiff]

\* the resets before the loop, and the first iteration up to callLLM
startLoop(K) ==
    loopTop([K EXCEPT !.o.step = 0,
                      !.o.consecutiveFinals = 0,
                      !.o.consecutiveStepsWithoutAction = 0])

\* the working record of a handler whose locals are l, on state object o
Work(l, o) ==
    [o |-> o, pc |-> l.pc, events |-> l.events, queue |-> l.queue, cur |-> l.cur,
     calls |-> l.calls, bnd |-> l.bnd, ndisp |-> l.ndisp, outcome |-> l.outcome,
     noact |-> l.noact, nudges |-> l.nudges, snap |-> l.snap,
     maxSteps |-> l.req.maxSteps, saved |-> saved, del |-> FALSE]

\* the handler's locals after a piece that left K; a finished run drops its reference
Local(l, K, ref) ==
    [pc |-> K.pc, ref |-> IF K.pc = "idle" THEN 0 ELSE ref, req |-> l.req,
     events |-> K.events, queue |-> K.queue, cur |-> K.cur, calls |-> K.calls,
     bnd |-> K.bnd, ndisp |-> K.ndisp, outcome |-> K.outcome,
     noact |-> K.noact, nudges |-> K.nudges, snap |-> K.snap]

\* the state objects still referenced by the registry or by a running handler
Collect(hp, reg, rn) ==
    LET live == ({reg, aux.ref} \cup {rn[h].ref : h \in Handlers}) \ {0}
    IN  [o \in (DOMAIN hp) \cap live |-> hp[o]]

\* handler h, with locals l, ran a piece on the object at ref of heap hp and left K
Commit(h, l, ref, K, hp, reg0) ==
    LET rn == [run EXCEPT ![h] = Local(l, K, ref)]
        reg == IF K.del THEN 0 ELSE reg0
    IN  /\ run' = rn
        /\ registry' = reg
        /\ heap' = Collect([hp EXCEPT ![ref] = K.o], reg, rn)
        /\ saved' = K.saved

\* the handler of /compact and /switch-model when it serves no request
\* n counts the requests it has accepted
IdleAux == [pc |-> "idle", ref |-> 0, snap |-> <<>>, n |-> 0]

\* a decision for a session id that is not in the registry
noSession(l) == [l EXCEPT !.events = <<"final_nosession">>, !.outcome = "nosession"]

noPendingDiff_silent(l) == [l EXCEPT !.outcome = "nopending"]

\* a decision for a session that has no pending diff
noPendingDiff(l) == [l EXCEPT !.events = <<"final_nopending">>, !.outcome = "nopending"]

EngineInit ==
    /\ registry = 0
    /\ heap = <<>>
    /\ run = [h \in Handlers |-> IdleRun]
    /\ nreq = 0
    /\ aux = IdleAux
    /\ saved = <<>>

\* POST /chat in agent mode: runAgent from its entry to its first await
ChatRequest(h, r, fits) ==
    /\ run[h].pc = "idle"
    /\ nreq < MaxRequests
    /\ nreq' = nreq + 1
    /\ LET l == [IdleRun EXCEPT !.req =
                     [r EXCEPT !.n = nreq + 1,
                               !.pending = registry # 0 /\ heap[registry].pendingDiff.set]]
       IN  IF registry = 0 THEN
               /\ run' = [run EXCEPT ![h] =
                            IF r.decision # "none" THEN noSession(l)
                            ELSE [l EXCEPT !.pc = "init"]]
               /\ UNCHANGED <<registry, heap, saved>>
           ELSE IF r.decision # "none" /\ ~heap[registry].pendingDiff.set THEN
               /\ run' = [run EXCEPT ![h] = noPendingDiff(l)]
               /\ UNCHANGED <<registry, heap, saved>>
           ELSE
               LET K0 == Work(l, heap[registry])
                   K1 == IF r.decision # "none" THEN applyDecision(K0, r.decision, fits) ELSE K0
                   K2 == IF r.message THEN push(K1, userMessage(r)) ELSE K1
               IN  Commit(h, l, registry, startLoop(K2), heap, registry)
    /\ UNCHANGED <<toolVars, sideVars, aux>>

\* the session initialisation returns: the state object is built and registered
InitDone(h) ==
    /\ run[h].pc = "init"
    /\ LET id == CHOOSE i \in ObjIds \ DOMAIN heap : \A j \in ObjIds \ DOMAIN heap : i <= j
           o == [newState(run[h].req.agentPlus) EXCEPT
                    !.messages = <<"system", userMessage(run[h].req)>>]
       IN  Commit(h, run[h], id, startLoop(Work(run[h], o)), heap @@ (id :> o), id)
    /\ UNCHANGED <<toolVars, sideVars, nreq, aux>>

\* callLLM returns (or throws: reply.kind = "error")
LLMReturn(h, reply) ==
    /\ run[h].pc = "llm"
    /\ Commit(h, run[h], run[h].ref,
              processReply(Work(run[h], heap[run[h].ref]), reply), heap, registry)
    /\ UNCHANGED <<toolVars, sideVars, nreq, aux>>

\* runTool returns inside executeToolAction
ToolDone(h) ==
    /\ run[h].pc = "tool"
    /\ LET K == observe(Work(run[h], heap[run[h].ref]), run[h].cur, run[h].cur.res)
       IN  Commit(h, run[h], run[h].ref, runCalls(K, run[h].queue), heap, registry)
    /\ UNCHANGED <<toolVars, sideVars, nreq, aux>>

\* autoSaveWithSummary returns after an accepted final: activeAgents.delete
SummaryDone(h) ==
    /\ run[h].pc = "summary"
    /\ LET K == Work(run[h], heap[run[h].ref])
       IN  Commit(h, run[h], run[h].ref, [finish(K, "final") EXCEPT !.del = TRUE], heap, registry)
    /\ UNCHANGED <<toolVars, sideVars, nreq, aux>>

\* autoSaveWithSummary returns after the safety cap: the final is sent
CapSummaryDone(h) ==
    /\ run[h].pc = "capsummary"
    /\ LET K == Work(run[h], heap[run[h].ref])
       IN  Commit(h, run[h], run[h].ref, finish(emit(K, "final_cap"), "cap"), heap, registry)
    /\ UNCHANGED <<toolVars, sideVars, nreq, aux>>

\* compactConversation returns to the loop of runAgent
AutoCompactDone(h) ==
    /\ run[h].pc = "compact"
    /\ Commit(h, run[h], run[h].ref,
              autoCompacted(Work(run[h], heap[run[h].ref])), heap, registry)
    /\ UNCHANGED <<toolVars, sideVars, nreq, aux>>

\* the state objects the registry, the handlers rn and the handler ax refer to
CollectWith(hp, reg, rn, ax) ==
    LET live == ({reg, ax.ref} \cup {rn[h].ref : h \in Handlers}) \ {0}
    IN  [o \in (DOMAIN hp) \cap live |-> hp[o]]

\* POST /compact: compactSession up to the await of compactConversation's LLM call
CompactRequest ==
    /\ aux.pc = "idle"
    /\ aux.n < MaxAux
    /\ registry # 0
    /\ ~nothingToCompact(heap[registry].messages)
    /\ aux' = [pc |-> "compact", ref |-> registry, snap |-> heap[registry].messages,
               n |-> aux.n + 1]
    /\ UNCHANGED <<toolVars, sideVars, registry, heap, run, nreq, saved>>

\* compactSession after the await: the conversation is replaced and saved
CompactDone ==
    /\ aux.pc = "compact"
    /\ aux' = [IdleAux EXCEPT !.n = aux.n]
    /\ LET msgs == compactResult(aux.snap)
       IN  /\ heap' = CollectWith([heap EXCEPT ![aux.ref].messages = msgs],
                                  registry, run, IdleAux)
           /\ saved' = msgs
    /\ UNCHANGED <<toolVars, sideVars, registry, run, nreq>>

\* the model a /switch-model request names
NewModel == "m1"

\* POST /switch-model: switchModel up to the await of compactConversation's LLM
\* call, or to its end when nothing is compacted
SwitchRequest ==
    /\ aux.pc = "idle"
    /\ aux.n < MaxAux
    /\ registry # 0
    /\ LET messages == heap[registry].messages
       IN  IF Len(messages) > 4 /\ ~nothingToCompact(messages)
           THEN /\ aux' = [pc |-> "switch", ref |-> registry, snap |-> messages,
                           n |-> aux.n + 1]
                /\ heap' = [heap EXCEPT ![registry].model = NewModel]
           ELSE /\ heap' = [heap EXCEPT ![registry].model = NewModel,
                                        ![registry].compactCount = 0]
                /\ aux' = [aux EXCEPT !.n = @ + 1]
    /\ UNCHANGED <<toolVars, sideVars, registry, run, nreq, saved>>

\* switchModel after the await: summary, the note of the switch, compactCount = 0
SwitchDone ==
    /\ aux.pc = "switch"
    /\ aux' = [IdleAux EXCEPT !.n = aux.n]
    /\ heap' = CollectWith([heap EXCEPT
                               ![aux.ref].messages = compactResult(aux.snap) \o <<"obs_switch">>,
                               ![aux.ref].compactCount = 0],
                           registry, run, IdleAux)
    /\ UNCHANGED <<toolVars, sideVars, registry, run, nreq, saved>>

\* POST /stop-agent
StopAgent ==
    /\ registry # 0
    /\ ~heap[registry].stopRequested
    /\ heap' = [heap EXCEPT ![registry].stopRequested = TRUE]
    /\ UNCHANGED <<toolVars, sideVars, registry, run, nreq, aux, saved>>

\* POST /clear-session
ClearSession ==
    /\ registry # 0
    /\ registry' = 0
    /\ heap' = Collect(heap, 0, run)
    /\ UNCHANGED <<toolVars, sideVars, run, nreq, aux, saved>>

(***************************************************************************)
(* What the model replies.                                                 *)
(***************************************************************************)
PA == [null |-> FALSE, abs |-> FALSE, segs |-> <<A>>]

POut == [null |-> FALSE, abs |-> FALSE, segs |-> <<DotDot, W2>>]

Reply(kind, tool, path, payload, fits, calls) ==
    [kind |-> kind, tool |-> tool, path |-> path, payload |-> payload, fits |-> fits,
     calls |-> calls, tasks |-> 0, progress |-> FALSE, notFound |-> FALSE, big |-> FALSE]

Thought == Reply("thought", "", NullPath, "null", TRUE, <<>>)

Final == Reply("final", "", NullPath, "null", TRUE, <<>>)

Action(tool, path, payload, fits) == Reply("action", tool, path, payload, fits, <<>>)

ReadA == Action("read_file", PA, "text", TRUE)

DiffRequest(path, payload, fits) == Reply("diff_request", "", path, payload, fits, <<>>)

ToolCalls(calls) == Reply("tool_calls", "", NullPath, "null", TRUE, calls)

\* a thought whose content is a numbered plan of two tasks
ThoughtPlan == [Thought EXCEPT !.tasks = 2]

\* a thought whose content reports a completed task
ThoughtProgress == [Thought EXCEPT !.progress = TRUE]

\* a reply that is plain text, not JSON
Text == Reply("text", "", NullPath, "null", TRUE, <<>>)

\* callLLM throws; NotFound: the error text contains 'not found'
Error == Reply("error", "", NullPath, "null", TRUE, <<>>)

ErrorNotFound == [Error EXCEPT !.notFound = TRUE]

\* the reply is the JSON text null
JsonNull == Reply("null", "", NullPath, "null", TRUE, <<>>)

\* the reply is a JSON number, or an object whose type is none the engine knows
Unknown == Reply("unknown", "", NullPath, "null", TRUE, <<>>)

\* a read_file whose result is of full size
ReadBig == [ReadA EXCEPT !.big = TRUE]

CoreReplies ==
    {Final, ReadA,
     Action("write_file", PA, "text", TRUE),
     Action("write_file", PA, "null", TRUE),
     DiffRequest(PA, "text2", TRUE)}

\* a delegate directive with n tasks
Delegate(n) == [Reply("delegate", "", NullPath, "null", TRUE, <<>>) EXCEPT !.tasks = n]

(***************************************************************************)
(* runSwarmWorkers.  Numbers that can be fractions are kept in halves.     *)
(***************************************************************************)
MaxTasks == 3

MaxModels == 2

Max(a, b) == IF a >= b THEN a ELSE b

\* Math.max(1, Math.min(5, SWARM_MAX_WORKERS || 2)), in halves; nan: not a number
maxWorkers(cfg) ==
    CASE cfg.kind = "text" -> [nan |-> TRUE, v |-> 0]
      [] cfg.kind = "undefined" \/ cfg.v = 0 -> [nan |-> FALSE, v |-> 4]
      [] OTHER -> [nan |-> FALSE, v |-> Max(2, Min(10, cfg.v))]

\* normalized.slice(i, i + maxWorkers) of n tasks, as the workers that start:
\* slice truncates both of its arguments, and takes NaN for 0
chunkOf(n, i2, mw) ==
    LET start == i2 \div 2
        end == IF mw.nan THEN 0 ELSE Min(n, (i2 + mw.v) \div 2)
    IN  [j \in 1..Max(0, end - start) |->
            [task |-> start + j, attempt |-> 1, res |-> NoRes]]

chunkResults_reversed(chunk) == [j \in 1..Len(chunk) |-> chunk[Len(chunk) + 1 - j].res]

\* await Promise.all(chunkPromises): the results in the order of the promises
chunkResults(chunk) == [j \in 1..Len(chunk) |-> chunk[j].res]

\* the head of the loop over the chunks: the next chunk starts, or the loop ends
nextChunk(sw) ==
    LET mw == maxWorkers(sw.cfg)
    IN  IF mw.nan
        THEN \* the first chunk is empty and i becomes NaN
             [sw EXCEPT !.pc = "done", !.chunk = <<>>]
        ELSE IF sw.i2 < 2 * sw.n
        THEN [sw EXCEPT !.pc = "run", !.chunk = chunkOf(sw.n, sw.i2, mw)]
        ELSE [sw EXCEPT !.pc = "done", !.chunk = <<>>]

\* results.every(r => r.startsWith('Worker error:')) on results that are not empty
allErrors(results) ==
    /\ Len(results) > 0
    /\ \A i \in 1..Len(results) : results[i].kind = "error"

\* the pool is in state sw after a step: when runSwarmWorkers has returned or
\* thrown, the run that delegated goes on
PoolStep(sw) ==
    IF sw.pc \in {"done", "fatal"}
    THEN LET h == sw.h
             K == Work(run[h], heap[run[h].ref])
             failed == sw.pc = "fatal" \/ allErrors(sw.results)
         IN  /\ Commit(h, run[h], run[h].ref,
                       IF failed THEN swarmFailed(K) ELSE swarmSucceeded(K), heap, registry)
             /\ swarm' = [NoSwarm EXCEPT
                             !.cfg = sw.cfg,
                             !.ooo = ~failed /\ sw.ooo,
                             !.agg = IF failed THEN <<>>
                                     ELSE [i \in 1..Len(sw.results) |-> sw.results[i].task]]
    ELSE /\ swarm' = sw
         /\ UNCHANGED <<registry, heap, run, saved>>

\* callLLM returns a delegate directive with n tasks
DelegateReturn(h, n) ==
    /\ run[h].pc = "llm"
    /\ swarm.pc = "idle"
    /\ LET K == processReply(Work(run[h], heap[run[h].ref]), Delegate(n))
       IN  /\ Commit(h, run[h], run[h].ref, K, heap, registry)
           /\ swarm' = IF K.pc = "swarm"
                       THEN [NoSwarm EXCEPT !.cfg = swarm.cfg, !.pc = "list", !.h = h, !.n = n]
                       ELSE swarm
    /\ UNCHANGED <<toolVars, trim, store, editor, nest, nreq, aux>>

\* listModels returns: each task has nmodels models to try; the first chunk starts
ListModelsDone(nmodels) ==
    /\ swarm.pc = "list"
    /\ PoolStep(nextChunk([swarm EXCEPT !.nmodels = nmodels]))
    /\ UNCHANGED <<toolVars, trim, store, editor, nest, nreq, aux>>

\* the runAgent call of worker j of the chunk returns or throws.  "final": it
\* returned after the final of the model; "llmfail": it returned after the final
\* 'LLM call failed'; "throw": it threw; "fatal": it threw an error whose text
\* names memory, heap, a reset connection or an abort
WorkerReturn(j, outcome) ==
    /\ swarm.pc = "run"
    /\ j \in 1..Len(swarm.chunk)
    /\ swarm.chunk[j].res = NoRes
    /\ LET w == swarm.chunk[j]
           res(kind) == [task |-> w.task, model |-> w.attempt, kind |-> kind]
           w1 == CASE outcome \in {"final", "llmfail"} -> [w EXCEPT !.res = res(outcome)]
                   [] outcome = "throw" /\ w.attempt < swarm.nmodels ->
                         [w EXCEPT !.attempt = @ + 1]
                   [] OTHER -> [w EXCEPT !.res = res("error")]
           sw1 == [swarm EXCEPT
                     !.chunk[j] = w1,
                     !.ooo = @ \/ (w1.res # NoRes /\ \E x \in 1..(j - 1) : swarm.chunk[x].res = NoRes)]
           sw2 == IF outcome = "fatal" THEN [sw1 EXCEPT !.pc = "fatal"]
                  ELSE IF \A x \in 1..Len(sw1.chunk) : sw1.chunk[x].res # NoRes
                  THEN nextChunk([sw1 EXCEPT !.results = @ \o chunkResults(sw1.chunk),
                                             !.i2 = @ + maxWorkers(sw1.cfg).v])
                  ELSE sw1
       IN  PoolStep(sw2)
    /\ UNCHANGED <<toolVars, trim, store, editor, nest, nreq, aux>>

WorkerOutcomes == {"final", "llmfail", "throw", "fatal"}

\* the values of SWARM_MAX_WORKERS: absent, "many", 1, 1.5, 3, 7
SwarmConfigs == {Undefined, TextValue, Num(2), Num(3), Num(6), Num(14)}

Next ==
    \/ \E h \in Handlers, r \in Requests, fits \in BOOLEAN : ChatRequest(h, r, fits)
    \/ \E h \in Handlers : InitDone(h)
    \/ \E h \in Handlers, reply \in CoreReplies : LLMReturn(h, reply)
    \/ \E h \in Handlers : ToolDone(h)
    \/ \E h \in Handlers : SummaryDone(h)
    \/ \E h \in Handlers : CapSummaryDone(h)
    \/ StopAgent
    \/ ClearSession

Init == ToolsInit /\ EngineInit /\ SideInit

Spec == Init /\ [][Next]_vars

ToolsNext ==
    \/ \E key \in ConfigKeys, policy \in Policies : Config(key, policy)
    \/ \E tool \in DispatcherTools, path \in PathArgs, autoMode \in BOOLEAN :
         \E payload \in PayloadsFor(tool) :
           \E fits \in FitsFor(tool, payload) : CallTool(tool, path, payload, autoMode, fits)
    \/ ReturnTool

InitTools == ToolsInit /\ EngineInit /\ SideInit

SpecTools == InitTools /\ [][ToolsNext]_vars

(***************************************************************************)
(* Claims about the dispatcher, checked under SpecTools.                   *)
(***************************************************************************)

\* the tools of the model that take a path argument
PathTools ==
    {"apply_diff", "read_file", "write_file", "replace_in_file", "run_shell",
     "glob_files", "analyze_image"}

\* the location a call's path argument names: joined with the root, normalised
NamedLocation(call) == pathResolve(WorkspaceRootDir, call.path)

\* C6: for every tool that accepts a path argument, a call whose path resolves
\* outside the workspace root fails and neither reads nor writes that location.
C6_PathConfined ==
    (/\ toolCall.tool \in PathTools
     /\ ~toolCall.path.null
     /\ ~InsideWorkspace(NamedLocation(toolCall), WorkspaceRootDir))
    => (/\ ~toolCall.res.ok
        /\ NamedLocation(toolCall) \notin (toolCall.res.reads \cup toolCall.res.writes))

\* C7: for every tool name, the dispatcher does not execute the tool when its
\* policy is never, nor when its policy is ask and autoMode is not set, and
\* executes it otherwise.
C7_PolicyDecides ==
    toolCall.tool \in DispatcherTools
    => (toolCall.res.ran
        <=> ~(\/ toolCall.policy = "never"
              \/ (toolCall.policy = "ask" /\ ~toolCall.autoMode)))

(***************************************************************************)
(* Claims about the engine, checked under Spec.                            *)
(***************************************************************************)

\* this step is the entry of a /chat request into runAgent on handler h
Entry(h) == nreq' = nreq + 1 /\ run'[h].req.n = nreq'

\* the session has a pending diff
PendingDiffSet == registry # 0 /\ heap[registry].pendingDiff.set

\* the state object handler h works on in this step (0: none yet)
ObjOf(h) == IF Entry(h) THEN registry ELSE run[h].ref

\* the events handler h sends in this step
Sent(h) ==
    LET before == IF Entry(h) THEN 0 ELSE Len(run[h].events)
    IN  SubSeq(run'[h].events, before + 1, Len(run'[h].events))

Count(s, S) == Cardinality({i \in DOMAIN s : s[i] \in S})

\* C1: in agent (non-plus) mode an action naming apply_diff, write_file or
\* replace_in_file never reaches the tool dispatcher, whatever its arguments.
C1_WriteToolsNeverDispatched ==
    \A h \in Handlers :
        (run[h].cur.by = "action" /\ ~run[h].cur.agentPlus)
        => run[h].cur.tool \notin GatedTools

\* C2: while a pending diff is set, a request that is not a decision leaves it
\* unchanged: no step of a run whose request came in without a decision while
\* the diff was pending changes the pending diff.
C2_PendingDiffKept ==
    [][\A h \in Handlers :
          (/\ run'[h] # run[h]
           /\ run'[h].req.decision = "none"
           /\ run'[h].req.pending)
          => \A o \in DOMAIN heap \cap DOMAIN heap' :
                heap[o].pendingDiff.set => heap'[o].pendingDiff = heap[o].pendingDiff]_vars

\* C3: while the session has a pending diff, a request carrying a message and
\* no decision is rejected: it ends at once with no LLM call and no dispatch.
C3_MessageRejectedWhilePending ==
    [][\A h \in Handlers :
          (Entry(h) /\ PendingDiffSet /\ run'[h].req.decision = "none")
          => (run'[h].pc = "idle" /\ run'[h].calls = 0 /\ run'[h].ndisp = 0)]_vars

\* C4: a decision on a session with a pending diff clears the pending diff and
\* appends exactly one observation message (followed only by the request's own
\* user message) before the loop continues; on approve the dispatcher is called
\* once, with exactly the stored filePath and diff; on reject it is not called.
C4_DecisionApplied ==
    [][\A h \in Handlers :
          (Entry(h) /\ PendingDiffSet /\ run'[h].req.decision # "none")
          => LET o == heap[registry]
                 q == run'[h].req
                 n == Len(o.messages)
             IN  /\ registry' = registry
                 /\ ~heap'[registry].pendingDiff.set
                 /\ \E obs \in {"obs_approved", "obs_failed", "obs_rejected"} :
                       heap'[registry].messages =
                           o.messages \o <<obs>> \o (IF q.message THEN <<"user">> ELSE <<>>)
                 /\ q.decision = "approve" =>
                       /\ run'[h].ndisp = 1
                       /\ run'[h].cur.by = "approve"
                       /\ run'[h].cur.tool = "apply_diff"
                       /\ run'[h].cur.path = o.pendingDiff.filePath
                       /\ run'[h].cur.payload = o.pendingDiff.diff
                       /\ (heap'[registry].messages[n + 1] = "obs_approved")
                              <=> run'[h].cur.res.ok
                 /\ q.decision = "reject" =>
                       /\ run'[h].ndisp = 0
                       /\ run'[h].cur = NoDispatch
                       /\ heap'[registry].messages[n + 1] = "obs_rejected"]_vars

\* an approved diff was applied from the stored pending diff
C4_Witness ==
    \E h \in Handlers :
        /\ run[h].req.decision = "approve"
        /\ run[h].cur.by = "approve"
        /\ run[h].cur.res.ok
        /\ run[h].cur.res.writes # {}

\* C5: an approve sent to a session with no pending diff fails fast: exactly one
\* final event, no LLM call, no dispatch, and the session's state is unchanged.
C5_ApproveWithoutPending ==
    [][\A h \in Handlers :
          (Entry(h) /\ registry # 0 /\ ~PendingDiffSet /\ run'[h].req.decision = "approve")
          => /\ run'[h].events = <<"final_nopending">>
             /\ run'[h].pc = "idle"
             /\ run'[h].calls = 0
             /\ run'[h].ndisp = 0
             /\ heap' = heap
             /\ registry' = registry]_vars

\* an approve was answered with the "no pending diff" final on a live session
C5_Witness ==
    \E h \in Handlers :
        /\ run[h].req.decision = "approve"
        /\ run[h].outcome = "nopending"
        /\ registry # 0

\* this step takes handler h through a step boundary with the stop flag set
StopBoundary(h) ==
    /\ run'[h].bnd > (IF Entry(h) THEN 0 ELSE run[h].bnd)
    /\ ObjOf(h) # 0
    /\ heap[ObjOf(h)].stopRequested

C9_NoActionAfterStop ==
    [][\A h \in Handlers :
          (/\ ~Entry(h)
           /\ run[h].ref # 0
           /\ heap[run[h].ref].stopRequested
           /\ Count(run[h].events, {"observation"}) > 0)
          => Count(Sent(h), {"action"}) = 0]_vars

\* the calls of the LLM a handler is waiting for
LLMCallsInFlight == {h \in Handlers : run[h].pc \in {"llm", "summary", "capsummary"}}

\* C10: at most one LLM call is in flight for the session id at any time.
C10_OneLLMCallInFlight == Cardinality(LLMCallsInFlight) <= 1

(***************************************************************************)
(* Runs of one handler whose model replies with plain text or a final.     *)
(***************************************************************************)
NextNoProgress ==
    \/ \E r \in RequestsWith({DefaultMaxSteps}), fits \in BOOLEAN : ChatRequest("h1", r, fits)
    \/ InitDone("h1")
    \/ \E reply \in {Text, Final} : LLMReturn("h1", reply)
    \/ SummaryDone("h1")
    \/ CapSummaryDone("h1")

InitNoProgress == ToolsInit /\ EngineInit /\ SideInit

SpecNoProgress == InitNoProgress /\ [][NextNoProgress]_vars

(***************************************************************************)
(* Runs of one handler whose model plans tasks, reports progress and       *)
(* says it is done, with stop and clear requests.                          *)
(***************************************************************************)
NextPlan ==
    \/ \E r \in RequestsWith({PlanSteps}), fits \in BOOLEAN : ChatRequest("h1", r, fits)
    \/ InitDone("h1")
    \/ \E reply \in {ThoughtPlan, ThoughtProgress, Final} : LLMReturn("h1", reply)
    \/ SummaryDone("h1")
    \/ CapSummaryDone("h1")
    \/ StopAgent
    \/ ClearSession

InitPlan == ToolsInit /\ EngineInit /\ SideInit

SpecPlan == InitPlan /\ [][NextPlan]_vars

(***************************************************************************)
(* Runs of one handler whose LLM calls fail, or return what is no          *)
(* directive.                                                              *)
(***************************************************************************)
NextReplies ==
    \/ \E r \in RequestsWith({ReplySteps}), fits \in BOOLEAN : ChatRequest("h1", r, fits)
    \/ InitDone("h1")
    \/ \E reply \in {Error, ErrorNotFound, JsonNull, Unknown, Text, Final} :
            LLMReturn("h1", reply)
    \/ SummaryDone("h1")
    \/ CapSummaryDone("h1")

InitReplies == ToolsInit /\ EngineInit /\ SideInit

SpecReplies == InitReplies /\ [][NextReplies]_vars

(***************************************************************************)
(* Runs of one handler that read full-size files, with /compact and        *)
(* /switch-model requests for the session.                                 *)
(***************************************************************************)
\* the requests that carry a message and no decision
MessageRequests(caps) == {r \in RequestsWith(caps) : r.decision = "none"}

NextCompact ==
    \/ \E r \in MessageRequests({CompactSteps}) : ChatRequest("h1", r, TRUE)
    \/ InitDone("h1")
    \/ LLMReturn("h1", ReadBig)
    \/ ToolDone("h1")
    \/ CapSummaryDone("h1")
    \/ AutoCompactDone("h1")
    \/ CompactRequest
    \/ CompactDone
    \/ SwitchRequest
    \/ SwitchDone

InitCompact == ToolsInit /\ EngineInit /\ SideInit

SpecCompact == InitCompact /\ [][NextCompact]_vars

(***************************************************************************)
(* Runs of one handler on requests with short and with very long messages. *)
(***************************************************************************)
BigRequests(caps) == {[r EXCEPT !.big = TRUE] : r \in MessageRequests(caps)}

NextBig ==
    \/ \E r \in MessageRequests({CompactSteps}) \cup BigRequests({CompactSteps}) :
            ChatRequest("h1", r, TRUE)
    \/ InitDone("h1")
    \/ \E reply \in {ReadA, Final} : LLMReturn("h1", reply)
    \/ ToolDone("h1")
    \/ SummaryDone("h1")
    \/ CapSummaryDone("h1")
    \/ AutoCompactDone("h1")

InitBig == ToolsInit /\ EngineInit /\ SideInit

SpecBig == InitBig /\ [][NextBig]_vars

(***************************************************************************)
(* Calls of trimForContextWindow.                                          *)
(***************************************************************************)
NextTrim == Trim

InitTrim == ToolsInit /\ EngineInit /\ trim \in TrimInputs /\ swarm = NoSwarm /\ store = NoStore /\ editor = NoEditor /\ nest = NoNest

SpecTrim == InitTrim /\ [][NextTrim]_vars

(***************************************************************************)
(* Runs of one handler whose model delegates tasks to sub-agents.          *)
(***************************************************************************)
SwarmSteps == 3

NextSwarm ==
    \/ \E r \in MessageRequests({SwarmSteps}) : ChatRequest("h1", r, TRUE)
    \/ InitDone("h1")
    \/ LLMReturn("h1", Final)
    \/ \E n \in 1..MaxTasks : DelegateReturn("h1", n)
    \/ \E nmodels \in 1..MaxModels : ListModelsDone(nmodels)
    \/ \E j \in 1..MaxTasks, outcome \in WorkerOutcomes : WorkerReturn(j, outcome)
    \/ SummaryDone("h1")
    \/ CapSummaryDone("h1")

InitSwarm ==
    /\ ToolsInit
    /\ EngineInit
    /\ trim = NoTrim
    /\ store = NoStore
    /\ editor = NoEditor /\ nest = NoNest
    /\ swarm \in {[NoSwarm EXCEPT !.cfg = c] : c \in SwarmConfigs}

SpecSwarm == InitSwarm /\ [][NextSwarm]_vars

(***************************************************************************)
(* Claims about the bounds of a run.                                       *)
(***************************************************************************)

\* C11: maxSteps is a hard upper bound: a run makes at most maxSteps LLM calls,
\* whatever the model replies and whatever other requests arrive for the session
\* while the run is in progress.
C11_MaxStepsBoundsCalls ==
    \A h \in Handlers : run[h].calls <= run[h].req.maxSteps

\* C12: a run never makes an LLM call when its last 10 or more steps produced
\* no action: after 10 consecutive steps that produce no action the run ends
\* with a final.
C12_NoCallAfterNoProgress ==
    \A h \in Handlers : run[h].pc = "llm" => run[h].noact < NO_PROGRESS_LIMIT

(***************************************************************************)
(* Claims about the finals of the model, checked under SpecPlan.           *)
(***************************************************************************)

\* this step is the return of an LLM call of handler h with a final of the model
ModelFinal(h) ==
    /\ run[h].pc = "llm"
    /\ Len(run'[h].events) > Len(run[h].events)
    /\ run'[h].events[Len(run[h].events) + 1] = "final"

\* the final of this step is answered with a continuation nudge
NudgeCase(h) ==
    LET o == heap[run[h].ref]
    IN  /\ o.totalTasks > 0
        /\ o.completedTasks < o.totalTasks
        /\ o.consecutiveFinals + 1 <= 2

\* C13 (as the code has it): when the model emits a final while totalTasks > 0,
\* completed < total and the count of consecutive finals is at most 2, the final
\* does not end the run: the session stays registered, a user nudge is pushed
\* and the loop goes to its next iteration (whose checks may end the run).  In
\* every other case a final of the model saves the session, removes it from the
\* registry and ends the run.
C13_FinalNudgesOrEnds ==
    [][\A h \in Handlers :
          /\ ModelFinal(h) =>
                LET o == heap[run[h].ref]
                    n == Len(o.messages)
                IN  IF NudgeCase(h)
                    THEN /\ registry' = registry
                         /\ run'[h].outcome \in {"none", "cap", "stopped", "noprogress"}
                         /\ SubSeq(Sent(h), 1, 2) = <<"final", "thought">>
                         /\ run[h].ref \in DOMAIN heap' =>
                                SubSeq(heap'[run[h].ref].messages, 1, n + 2)
                                    = o.messages \o <<"a_final", "user_nudge_tasks">>
                    ELSE /\ saved' = o.messages \o <<"a_final">>
                         /\ Sent(h) = <<"final">>
                         /\ IF n + 1 > 6
                            THEN run'[h].pc = "summary"
                            ELSE /\ run'[h].pc = "idle"
                                 /\ run'[h].outcome = "final"
                                 /\ registry' = 0
          /\ (run[h].pc = "summary" /\ run'[h] # run[h]) =>
                /\ run'[h].pc = "idle"
                /\ run'[h].outcome = "final"
                /\ registry' = 0]_vars

\* C13 as stated: a final answered with a nudge never ends the run.
C13_NudgedRunGoesOn ==
    [][\A h \in Handlers :
          (ModelFinal(h) /\ NudgeCase(h)) => run'[h].pc \in {"llm", "compact"}]_vars

\* a run that was nudged after a final went on, and a later final of the model
\* ended it and removed the session
C13_Witness ==
    \E h \in Handlers :
        /\ run[h].nudges > 0
        /\ run[h].outcome = "final"
        /\ registry = 0

\* C14: within one run, at most two continuation nudges are sent in response to
\* finals of the model while completed < total.
C14_AtMostTwoNudges ==
    \A h \in Handlers : run[h].nudges <= 2

(***************************************************************************)
(* Claims about failing calls and replies that are no directive, checked   *)
(* under SpecReplies.                                                      *)
(***************************************************************************)

\* C15: in every run, an LLM call that fails with an error not naming 'not
\* found' or 'does not exist' is retried, up to two retries, before the run ends
\* with a descriptive final: a run that ends on such a failure has sent its two
\* retries just before.
C15_RetriedBeforeFinal ==
    \A h \in Handlers :
        LET ev == run[h].events
            n == Len(ev)
        IN  (n > 0 /\ ev[n] = "final_llmfail")
            => /\ n >= 3
               /\ ev[n - 1] = "thought_retry"
               /\ ev[n - 2] = "thought_retry"

\* C16: the engine never raises out of its loop: for every reply of the model
\* and every tool failure runAgent returns normally.
C16_NeverRaises ==
    \A h \in Handlers : run[h].outcome # "raised"

\* C18: in every session at every step, every assistant message that records a
\* reply of the model is the JSON text of a directive.
C18_AssistantMessagesAreDirectives ==
    \A o \in DOMAIN heap :
        \A i \in 2..Len(heap[o].messages) :
            heap[o].messages[i] \in FromModel => heap[o].messages[i] \in Directives

(***************************************************************************)
(* Claims about the conversation and its compaction, checked under         *)
(* SpecCompact.                                                            *)
(***************************************************************************)

\* C17: in every session at every step, each message of role tool is immediately
\* preceded by an assistant message that is an action directive.
C17_ToolFollowsAction ==
    \A o \in DOMAIN heap :
        \A i \in 2..Len(heap[o].messages) :
            roleOf(heap[o].messages[i]) = "tool" => heap[o].messages[i - 1] = "a_action"

\* C19: over the whole lifetime of a session, automatic compaction rewrites the
\* conversation at most 3 times, whatever runs, switch-model and compact
\* requests the session receives.
C19_AutoCompactAtMostThrice ==
    \A o \in DOMAIN heap : heap[o].nauto <= 3

\* the conversation new keeps the first message and the last four of old, in
\* order, after one summary message
KeepsLastFour(old, new) ==
    /\ Len(new) >= 6
    /\ new[1] = old[1]
    /\ new[2] = "a_summary"
    /\ SubSeq(new, 3, 6) = SubSeq(old, Len(old) - 3, Len(old))

\* C20: every compaction (automatic, manual, or on model switch) leaves the four
\* most recent messages present when the compaction started unchanged and in
\* the same order; only the prefix before them is rewritten.
C20_CompactionKeepsLastFour ==
    [][/\ \A h \in Handlers :
            (run[h].pc = "compact" /\ run'[h] # run[h])
            => /\ KeepsLastFour(run[h].snap, heap'[run[h].ref].messages)
               /\ Len(heap'[run[h].ref].messages) = 6
       /\ (aux.pc = "compact" /\ aux' # aux /\ aux.ref \in DOMAIN heap')
            => /\ KeepsLastFour(aux.snap, heap'[aux.ref].messages)
               /\ Len(heap'[aux.ref].messages) = 6
       /\ (aux.pc = "switch" /\ aux' # aux /\ aux.ref \in DOMAIN heap')
            => /\ KeepsLastFour(aux.snap, heap'[aux.ref].messages)
               /\ heap'[aux.ref].messages[7] = "obs_switch"
               /\ Len(heap'[aux.ref].messages) = 7]_vars

\* a conversation that automatic compaction and a model switch have rewritten
C20_Witness ==
    \E o \in DOMAIN heap :
        /\ heap[o].nauto > 0
        /\ \E i \in DOMAIN heap[o].messages : heap[o].messages[i] = "obs_switch"

\* C21: after any compaction of a session (automatic, manual, or on model
\* switch, the appended note of the switch included), the conversation has no
\* more messages than it had when that compaction was started.
C21_CompactionNeverGrows ==
    [][/\ \A h \in Handlers :
            (run[h].pc = "compact" /\ run'[h] # run[h])
            => Len(heap'[run[h].ref].messages) <= Len(run[h].snap)
       /\ (aux.pc \in {"compact", "switch"} /\ aux' # aux /\ aux.ref \in DOMAIN heap')
            => Len(heap'[aux.ref].messages) <= Len(aux.snap)]_vars

\* a model switch has compacted a conversation and appended its note
C21_Witness ==
    \E o \in DOMAIN heap :
        /\ Len(heap[o].messages) = 7
        /\ heap[o].messages[2] = "a_summary"
        /\ heap[o].messages[7] = "obs_switch"

\* C22: whenever a step begins with the compaction counter below 3 and the
\* estimated tokens of the conversation above 75% of the budget, that step
\* has compacted the conversation before it calls the model, for every shape of
\* conversation: a run that is calling the model with the counter below 3 and
\* the conversation over the threshold has just rewritten it.
C22_OverBudgetStepCompacts ==
    \A h \in Handlers :
        run[h].pc = "llm" =>
            LET o == heap[run[h].ref]
            IN  (o.compactCount < 3 /\ shouldAutoCompact(o.messages, ContextBudget))
                => /\ o.nauto > 0
                   /\ Len(o.messages) = 6
                   /\ o.messages[2] = "a_summary"

\* C23: for every message sequence and every budget, the estimated token count
\* (as estimateMessagesTokens computes it) of the result of
\* trimForContextWindow is at most the budget.
C23_TrimmedFitsBudget ==
    trim.done => estimateSizedTokens(trim.out) <= trim.maxTokens

(***************************************************************************)
(* Claims about the order of the events, checked under Spec.               *)
(***************************************************************************)

\* C24: after the client posts an approve decision for a pending diff, the first
\* event of the continuation stream is an observation event reporting the
\* approval, before any further thought, action or final.
C24_ApprovalObservedFirst ==
    \A h \in Handlers :
        (/\ run[h].req.decision = "approve"
         /\ run[h].req.pending
         /\ run[h].events # <<>>)
        => run[h].events[1] = "observation"

\* this step dispatches a tool for handler h
Dispatches(h) == run'[h].ndisp > (IF Entry(h) THEN 0 ELSE run[h].ndisp)

Running == {j \in 1..Len(swarm.chunk) : swarm.chunk[j].res = NoRes}

\* C26: during a delegation, the number of sub-agents running at the same time
\* never exceeds maxWorkers, and maxWorkers is always between 1 and 5.
C26_AtMostMaxWorkers ==
    swarm.pc \in {"list", "run"} =>
        LET mw == maxWorkers(swarm.cfg)
        IN  /\ ~mw.nan
            /\ 2 <= mw.v /\ mw.v <= 10
            /\ 2 * Cardinality(Running) <= mw.v

\* the pool ends in this step, by runSwarmWorkers returning
PoolSucceeds ==
    /\ swarm.pc \in {"list", "run"}
    /\ swarm'.pc = "idle"
    /\ ~heap'[run[swarm.h].ref].swarmDisabled

\* C27: for every completion order of the sub-agents, the aggregated result
\* lists the outputs in the order of the input tasks (result i belongs to task
\* i), and it reaches the outer session as a single observation: one event and
\* one message when the pool ends, nothing while the sub-agents run.
C27_InputOrderSingleObservation ==
    [][/\ PoolSucceeds =>
            LET h == swarm.h
                o == run[h].ref
            IN  /\ \A i \in 1..Len(swarm'.agg) : swarm'.agg[i] = i
                /\ ~maxWorkers(swarm.cfg).nan => Len(swarm'.agg) = swarm.n
                /\ Sent(h) # <<>>
                /\ Sent(h)[1] = "observation"
                /\ Count(Sent(h), {"observation"}) = 1
                /\ Len(heap'[o].messages) = Len(heap[o].messages) + 1
                /\ heap'[o].messages[Len(heap'[o].messages)] = "tool_swarm"
       /\ (swarm.pc \in {"list", "run"} /\ swarm'.pc \in {"list", "run"})
             => run' = run /\ heap' = heap]_vars

\* a delegation of at least two tasks has ended with its results in the
\* conversation, after a sub-agent finished before one of an earlier task
C27_Witness ==
    /\ swarm.pc = "idle"
    /\ swarm.ooo
    /\ Len(swarm.agg) >= 2
    /\ \E o \in DOMAIN heap : Count(heap[o].messages, {"tool_swarm"}) >= 1

\* the outputs the pool holds: those of the running chunk and of the chunks before
Outputs ==
    {swarm.results[i] : i \in 1..Len(swarm.results)}
        \cup {swarm.chunk[j].res : j \in 1..Len(swarm.chunk)}

\* C28: when the LLM of a sub-agent fails with a non-fatal error on the first
\* model of its list, the worker retries the task with the next model: no task
\* with a second model to try contributes the failure of the first as its output.
C28_LLMFailureTriesNextModel ==
    \A res \in Outputs :
        (res.kind = "llmfail" /\ res.model = 1) => swarm.nmodels < 2

\* no pool runs for a session in agent (non-plus) mode
NoPoolInAgentMode == swarm.pc # "idle" => heap[run[swarm.h].ref].agentPlus

\* C30: a delegate directive received in agent (non-plus) mode starts no
\* sub-agent and is handled as an unknown directive: the engine answers it with
\* the user-role JSON-format reminder it uses for replies it cannot parse.
C30_DelegateInAgentModeGetsReminder ==
    /\ NoPoolInAgentMode
    /\ \A o \in DOMAIN heap :
          ~heap[o].agentPlus =>
              \A i \in 1..Len(heap[o].messages) :
                  heap[o].messages[i] = "a_delegate" =>
                      /\ i < Len(heap[o].messages)
                      /\ heap[o].messages[i + 1] = "user_nudge_json"

\* the pool ends in this step, by runSwarmWorkers throwing: a sub-agent failed
\* fatally, or every output is a worker error; there is no aggregated result
PoolFails ==
    /\ swarm.pc = "run"
    /\ swarm'.pc = "idle"
    /\ swarm'.agg = <<>>

\* C29: when a delegation fails (one task fails fatally, or every task fails),
\* the delegation-disabled flag of the session is set; once set it stays set
\* for the rest of the session; and a delegate directive received while it is
\* set starts no sub-agent.
C29_FailedDelegationDisables ==
    [][/\ PoolFails => heap'[run[swarm.h].ref].swarmDisabled
       /\ \A o \in DOMAIN heap \cap DOMAIN heap' :
             heap[o].swarmDisabled => heap'[o].swarmDisabled
       /\ \A h \in Handlers :
             (run[h].pc = "llm" /\ heap[run[h].ref].swarmDisabled)
                => (swarm' = swarm /\ run'[h].pc # "swarm")]_vars

\* after a failed delegation the model has delegated again and was told that
\* delegation is disabled
C29_Witness ==
    \E o \in DOMAIN heap :
        /\ heap[o].swarmDisabled
        /\ \E i \in 1..Len(heap[o].messages), j \in 1..Len(heap[o].messages) :
              /\ i < j
              /\ heap[o].messages[i] = "tool_swarm_failed"
              /\ heap[o].messages[j] = "user_nudge_swarm"

(***************************************************************************)
(* Claims about switch-model, persistence and the ends of a run.           *)
(***************************************************************************)

\* this step is switchModel from its entry to its first await or to its return
SwitchEntered == aux.pc = "idle" /\ aux'.n > aux.n /\ aux'.pc # "compact"

\* C31: switch-model on a session whose conversation has more than four messages
\* always compacts the conversation and appends one assistant observation noting
\* the switch, and every switch-model records the new model and resets the
\* compaction counter to zero.
C31_SwitchCompactsAndResets ==
    [][/\ SwitchEntered =>
            /\ heap'[registry].model = NewModel
            /\ Len(heap[registry].messages) > 4 => aux'.pc = "switch"
            /\ aux'.pc = "idle" => heap'[registry].compactCount = 0
       /\ (aux.pc = "switch" /\ aux'.pc = "idle" /\ aux.ref \in DOMAIN heap') =>
            LET messages == heap'[aux.ref].messages
            IN  /\ Len(messages) < Len(aux.snap) + 1
                /\ messages[Len(messages)] = "obs_switch"
                /\ Count(messages, {"obs_switch"})
                      = Count(aux.snap, {"obs_switch"}) + 1
                /\ heap'[aux.ref].compactCount = 0]_vars

(***************************************************************************)
(* Runs of one handler that end by a final, a stop request or a failed LLM *)
(* call.                                                                   *)
(***************************************************************************)
EndSteps == 3

NextEnds ==
    \/ \E r \in MessageRequests({EndSteps}) : ChatRequest("h1", r, TRUE)
    \/ InitDone("h1")
    \/ \E reply \in {Error, ErrorNotFound, Final, ReadA} : LLMReturn("h1", reply)
    \/ ToolDone("h1")
    \/ SummaryDone("h1")
    \/ CapSummaryDone("h1")
    \/ StopAgent

InitEnds == ToolsInit /\ EngineInit /\ SideInit

SpecEnds == InitEnds /\ [][NextEnds]_vars

\* the run of handler h ends in this step with one of the outcomes
RunEnds(h, outcomes) ==
    /\ Entry(h) \/ run[h].pc # "idle"
    /\ run'[h].pc = "idle"
    /\ run'[h].outcome \in outcomes

\* C32: every run that ends because of a stop request or a fatal LLM error
\* clears the session from the registry and leaves the conversation persisted,
\* as a normal final does.  (The checkpoint is written on each of these paths
\* and is not part of the state.)
C32_StopAndFailureClearAndPersist ==
    [][\A h \in Handlers :
          RunEnds(h, {"stopped", "llmfail"})
          => /\ registry' # ObjOf(h)
             /\ ObjOf(h) \in DOMAIN heap' => saved' = heap'[ObjOf(h)].messages]_vars

(***************************************************************************)
(* saveConversation (browser.js).  A message is the length of its content. *)
(***************************************************************************)
MAX_MESSAGES_PER_SAVE == 100

MaxSavedContent == 4000

saveConversation_splice(messages) ==
    LET from == Max(1, Len(messages) - MAX_MESSAGES_PER_SAVE + 1)
        toSave == SubSeq(messages, from, Len(messages))
    IN  [file |-> [i \in 1..Len(toSave) |-> Min(toSave[i], MaxSavedContent)],
         messages |-> toSave]

\* messages.slice(-MAX_MESSAGES_PER_SAVE), each content cut with slice(0, 4000),
\* written to the file; slice and map build new values and leave messages alone
saveConversation(messages) ==
    LET from == Max(1, Len(messages) - MAX_MESSAGES_PER_SAVE + 1)
        toSave == SubSeq(messages, from, Len(messages))
    IN  [file |-> [i \in 1..Len(toSave) |-> Min(toSave[i], MaxSavedContent)],
         messages |-> messages]

\* how long the conversations are that are saved
MaxStoreLen == 102

\* the lengths of the contents: short, at the cut, just above it, long
StoredSizes == {10, 4000, 4001, 9000}

\* conversations of up to MaxStoreLen messages whose contents alternate
\* between two lengths
StoreInputs ==
    {[before |-> [i \in 1..n |-> IF i % 2 = 1 THEN a ELSE b],
      messages |-> [i \in 1..n |-> IF i % 2 = 1 THEN a ELSE b],
      done |-> FALSE, file |-> <<>>] :
        n \in 0..MaxStoreLen, a \in StoredSizes, b \in StoredSizes}

\* a call of saveConversation returns
Save ==
    /\ ~store.done
    /\ LET r == saveConversation(store.messages)
       IN  store' = [store EXCEPT !.done = TRUE, !.file = r.file, !.messages = r.messages]
    /\ UNCHANGED <<toolVars, engineVars, trim, swarm, editor, nest>>

NextStore == Save

InitStore == ToolsInit /\ EngineInit /\ trim = NoTrim /\ swarm = NoSwarm /\ store \in StoreInputs /\ editor = NoEditor /\ nest = NoNest

SpecStore == InitStore /\ [][NextStore]_vars

\* C33: persisting a conversation writes at most the last 100 messages, and
\* never changes the conversation in memory: its length and the content of
\* every message are the same after saveConversation as before.
C33_SaveKeepsMemory ==
    store.done =>
        /\ Len(store.file) <= MAX_MESSAGES_PER_SAVE
        /\ \A i \in 1..Len(store.file) :
              store.file[i]
                = Min(store.before[Len(store.before) - Len(store.file) + i], MaxSavedContent)
        /\ Len(store.messages) = Len(store.before)
        /\ \A i \in 1..Len(store.before) : store.messages[i] = store.before[i]

\* a conversation of more than 100 messages, some longer than what is written
\* of one, has been saved
C33_Witness ==
    /\ store.done
    /\ Len(store.before) > MAX_MESSAGES_PER_SAVE
    /\ Len(store.file) = MAX_MESSAGES_PER_SAVE
    /\ \E i \in 1..Len(store.before) : store.before[i] > MaxSavedContent

(***************************************************************************)
(* The editor's live diff preview and the approval of a diff request.  A   *)
(* file is a sequence of lines, a diff is one hunk: where it starts and    *)
(* its lines of context, removal and addition.                             *)
(***************************************************************************)
Lines == {"a", "b"}

MaxFileLines == 2

MaxHunkOps == 2

Files == UNION {[1..n -> Lines] : n \in 0..MaxFileLines}

Hunks ==
    [start : 1..(MaxFileLines + 1),
     ops : UNION {[1..n -> [t : {"ctx", "del", "add"}, line : Lines]] : n \in 1..MaxHunkOps}]

RECURSIVE linesOf(_, _)
\* the lines of the operations of a hunk whose kind is in kinds
linesOf(ops, kinds) ==
    IF ops = <<>> THEN <<>>
    ELSE (IF Head(ops).t \in kinds THEN <<Head(ops).line>> ELSE <<>>)
            \o linesOf(Tail(ops), kinds)

\* the lines the hunk expects in the file
oldLines(hunk) == linesOf(hunk.ops, {"ctx", "del"})

\* the lines the hunk leaves in their place
newLines(hunk) == linesOf(hunk.ops, {"ctx", "add"})

\* the lines the hunk expects are in the file from line p on
matchesAt(file, hunk, p) ==
    /\ p >= 1
    /\ p + Len(oldLines(hunk)) - 1 <= Len(file)
    /\ SubSeq(file, p, p + Len(oldLines(hunk)) - 1) = oldLines(hunk)

\* applyPatch of the diff library: the hunk is applied where it says it starts
\* when its lines match there, else at a place where they match; the set of
\* the contents it can return, empty when it returns false
applyPatch(file, hunk) ==
    LET places == IF matchesAt(file, hunk, hunk.start) THEN {hunk.start}
                  ELSE {p \in 1..(Len(file) + 1) : matchesAt(file, hunk, p)}
    IN  {SubSeq(file, 1, p - 1) \o newLines(hunk)
            \o SubSeq(file, p + Len(oldLines(hunk)), Len(file)) : p \in places}

\* the engine has sent a diff_request for a file of the workspace
EditorInputs ==
    {[NoEditor EXCEPT !.pc = "requested", !.file = f, !.diff = d] : f \in Files, d \in Hunks}

\* the webview gets the diff_request and posts preview-diff; previewDiff writes
\* the proposed content to the file itself and keeps the original for a reject.
\* When the patch does not apply the diff is shown as a text and nothing is written
previewDiff ==
    /\ editor.pc = "requested"
    /\ LET proposed == applyPatch(editor.file, editor.diff)
       IN  IF proposed = {}
           THEN editor' = [editor EXCEPT !.pc = "previewed"]
           ELSE \E p \in proposed :
                    editor' = [editor EXCEPT !.pc = "previewed", !.backup = editor.file,
                                             !.file = p, !.proposed = p, !.wrote = TRUE]
    /\ UNCHANGED <<toolVars, engineVars, trim, swarm, store, nest>>

\* the user decides: applyDiffLocally leaves the file as the preview wrote it,
\* rejectDiffLocally restores the original; then the decision goes to the engine
agentDecision(decision) ==
    /\ editor.pc = "previewed"
    /\ editor' = [editor EXCEPT
                     !.pc = "decided",
                     !.decision = decision,
                     !.file = IF decision = "reject" /\ editor.wrote THEN editor.backup ELSE @]
    /\ UNCHANGED <<toolVars, engineVars, trim, swarm, store, nest>>

\* runAgent gets the decision: approve runs apply_diff on the file as it is now
\* and records the observation for the model; reject records the rejection
decisionBranch ==
    /\ editor.pc = "decided"
    /\ IF editor.decision = "approve"
       THEN LET patched == applyPatch(editor.file, editor.diff)
            IN  IF patched = {}
                THEN editor' = [editor EXCEPT !.pc = "done", !.obs = "failed"]
                ELSE \E p \in patched :
                        editor' = [editor EXCEPT !.pc = "done", !.file = p, !.obs = "applied"]
       ELSE editor' = [editor EXCEPT !.pc = "done", !.obs = "rejected"]
    /\ UNCHANGED <<toolVars, engineVars, trim, swarm, store, nest>>

NextEditor ==
    \/ previewDiff
    \/ \E decision \in {"approve", "reject"} : agentDecision(decision)
    \/ decisionBranch

InitEditor ==
    ToolsInit /\ EngineInit /\ trim = NoTrim /\ swarm = NoSwarm /\ store = NoStore
        /\ editor \in EditorInputs /\ nest = NoNest

SpecEditor == InitEditor /\ [][NextEditor]_vars

\* C34: when the editor has previewed a diff request and the user then approves
\* it, the target file ends with exactly the proposed content and the observation
\* recorded for the model reports that the diff was applied successfully.
C34_ApprovedPreviewIsApplied ==
    (editor.pc = "done" /\ editor.decision = "approve" /\ editor.wrote)
        => (editor.file = editor.proposed /\ editor.obs = "applied")

(***************************************************************************)
(* Claims about requests and runs that meet, checked under Spec.           *)
(***************************************************************************)

\* C35: a chat request sent with agentPlus = false never causes a file mutation
\* to be applied without a user decision, also when it goes to a session that
\* was created in agent-plus mode: whatever a run of such a request dispatches
\* without an approval writes no file.
C35_AgentRequestNeverWritesUnasked ==
    [][\A h \in Handlers :
          (Dispatches(h) /\ ~run'[h].req.agentPlus /\ run'[h].cur.by # "approve")
          => run'[h].cur.res.writes = {}]_vars

\* C36: in the event stream of one run a final event is terminal: at most one
\* final event is emitted, and no thought, action, observation or diff_request
\* event follows it.  (Checked under SpecPlan.)
C36_FinalIsLastEvent ==
    \A h \in Handlers :
        \A i \in 1..(Len(run[h].events) - 1) : run[h].events[i] \notin FinalEvents

\* C37: a stop request affects only a run that is in progress when it is issued:
\* a request that comes in while no run of the session is in progress is not
\* ended by a stop issued before it, and an approve is not applied and then
\* stopped at once.
C37_StopDoesNotEndLaterRun ==
    [][\A h \in Handlers :
          (Entry(h) /\ \A g \in Handlers : run[g].pc = "idle")
          => run'[h].outcome # "stopped"]_vars

(***************************************************************************)
(* Claims about requests that meet a run, checked under SpecCompact and    *)
(* Spec.                                                                   *)
(***************************************************************************)

\* the messages that were appended to the conversation cur since it was old
AppendedSince(old, cur) ==
    IF Len(cur) > Len(old) /\ SubSeq(cur, 1, Len(old)) = old
    THEN SubSeq(cur, Len(old) + 1, Len(cur))
    ELSE <<>>

\* C38: a compact or switch-model request that runs concurrently with an active
\* run of the same session never discards messages the run appended to the
\* conversation while the LLM call of the compaction was in flight: they follow
\* the compacted conversation (and precede the note of a switch).
C38_CompactionKeepsAppended ==
    [][(aux.pc \in {"compact", "switch"} /\ aux'.pc = "idle" /\ aux.ref \in DOMAIN heap')
         => LET appended == AppendedSince(aux.snap, heap[aux.ref].messages)
                after == heap'[aux.ref].messages
                new == IF aux.pc = "switch" THEN SubSeq(after, 1, Len(after) - 1) ELSE after
            IN  /\ Len(new) = Len(compactResult(aux.snap)) + Len(appended)
                /\ SubSeq(new, Len(new) - Len(appended) + 1, Len(new)) = appended]_vars

\* C39: if a session is cleared while its run is still in flight and a new
\* session is then created under the same id, the old run finishing by a
\* terminal final does not remove the new session from the registry: a run that
\* ends by a final leaves a registered session that is not its own in place.
C39_OldRunKeepsNewSession ==
    [][\A h \in Handlers :
          (/\ RunEnds(h, {"final"})
           /\ ~Entry(h)
           /\ registry # 0
           /\ registry # run[h].ref)
          => registry' = registry]_vars

(***************************************************************************)
(* Runs that wait on each other.  runAgent's loop (agent.js 511) counts    *)
(* its iterations up to maxSteps: 500 for a /chat request (index.js 260),  *)
(* 15 for a worker (agent.js 928).  A delegate directive in agent-plus     *)
(* mode awaits runSwarmWorkers, which awaits listModels and then, for each *)
(* task, a runAgent call of a new session with agentPlus: true; the new    *)
(* session's swarmDisabled is false (agent.js 487), so the worker's own     *)
(* delegate directives are served the same way.  nest.stack holds the      *)
(* runAgent calls that wait on each other, the innermost last; only the    *)
(* innermost one runs.  The workers of one delegation are taken one at a   *)
(* time (SWARM_MAX_WORKERS = 1).  The stack keeps the MaxDepth innermost   *)
(* calls: when a worker starts below that, the outermost call is dropped   *)
(* and nest.lost records it, and when the last call kept returns, what is  *)
(* left of the request is not followed any further.                         *)
(***************************************************************************)

\* the calls of runAgent the stack keeps
MaxDepth == 3

\* maxSteps of a /chat request (500 in index.js) and of a worker (15 in agent.js)
NestOuterSteps == 2

NestWorkerSteps == 2

\* the most tasks of one delegate directive
MaxNestTasks == 2

\* what a call of callLLM gives the loop: a reply of one of these types, or a failure
NestReplies == {"thought", "action", "final", "delegate", "throw"}

\* a call of runAgent at its first callLLM
runAgentFrame(maxSteps, agentPlus) ==
    [pc |-> "llm", step |-> 0, maxSteps |-> maxSteps, agentPlus |-> agentPlus, left |-> 0]

NestTop == nest.stack[Len(nest.stack)]

NestSetTop(f) == [nest EXCEPT !.stack[Len(nest.stack)] = f]

\* `continue`: state.step++, and the loop goes on while state.step < maxSteps
nextIteration(f) ==
    [f EXCEPT !.step = @ + 1, !.pc = IF f.step + 1 < f.maxSteps THEN "llm" ELSE "done"]

\* POST /chat calls runAgent
NestChat(agentPlus) ==
    /\ nest.stack = <<>>
    /\ nest' = [stack |-> <<runAgentFrame(NestOuterSteps, agentPlus)>>, lost |-> FALSE]
    /\ UNCHANGED <<toolVars, engineVars, trim, swarm, store, editor>>

\* callLLM returns to the innermost call
NestLLMReturn(reply) ==
    /\ nest.stack # <<>>
    /\ NestTop.pc = "llm"
    /\ nest' = NestSetTop(
         CASE reply \in {"final", "throw"} -> [NestTop EXCEPT !.pc = "done"]
           [] reply = "action" -> [NestTop EXCEPT !.pc = "tool"]
           [] reply = "delegate" /\ NestTop.agentPlus -> [NestTop EXCEPT !.pc = "pool"]
           [] OTHER -> nextIteration(NestTop))
    /\ UNCHANGED <<toolVars, engineVars, trim, swarm, store, editor>>

\* runTool returns to the innermost call
NestToolDone ==
    /\ nest.stack # <<>>
    /\ NestTop.pc = "tool"
    /\ nest' = NestSetTop(nextIteration(NestTop))
    /\ UNCHANGED <<toolVars, engineVars, trim, swarm, store, editor>>

\* runSwarmWorkers: listModels returns, the tasks are counted and the first worker's
\* runAgent call starts
NestPoolStart(tasks) ==
    /\ nest.stack # <<>>
    /\ NestTop.pc = "pool"
    /\ LET waiting == [NestTop EXCEPT !.pc = "worker", !.left = tasks - 1]
           kept == IF Len(nest.stack) < MaxDepth THEN nest.stack ELSE Tail(nest.stack)
       IN  nest' = [stack |-> SubSeq(kept, 1, Len(kept) - 1)
                                 \o <<waiting, runAgentFrame(NestWorkerSteps, TRUE)>>,
                    lost |-> nest.lost \/ Len(nest.stack) = MaxDepth]
    /\ UNCHANGED <<toolVars, engineVars, trim, swarm, store, editor>>

\* a worker's runAgent call returns: the next worker starts or, after the last one,
\* the swarm results are pushed and the waiting call's loop goes on
NestWorkerReturn ==
    /\ Len(nest.stack) >= 2
    /\ NestTop.pc = "done"
    /\ LET waiting == nest.stack[Len(nest.stack) - 1]
           below == SubSeq(nest.stack, 1, Len(nest.stack) - 2)
       IN  nest' = [nest EXCEPT !.stack =
                       IF waiting.left > 0
                       THEN below \o <<[waiting EXCEPT !.left = @ - 1],
                                       runAgentFrame(NestWorkerSteps, TRUE)>>
                       ELSE below \o <<nextIteration(waiting)>>]
    /\ UNCHANGED <<toolVars, engineVars, trim, swarm, store, editor>>

\* the outermost call the stack keeps returns
NestRunReturn ==
    /\ Len(nest.stack) = 1
    /\ NestTop.pc = "done"
    /\ nest' = NoNest
    /\ UNCHANGED <<toolVars, engineVars, trim, swarm, store, editor>>

NextNest ==
    \/ \E agentPlus \in BOOLEAN : NestChat(agentPlus)
    \/ \E reply \in NestReplies : NestLLMReturn(reply)
    \/ NestToolDone
    \/ \E tasks \in 1..MaxNestTasks : NestPoolStart(tasks)
    \/ NestWorkerReturn
    \/ NestRunReturn

InitNest ==
    ToolsInit /\ EngineInit /\ trim = NoTrim /\ swarm = NoSwarm /\ store = NoStore
        /\ editor = NoEditor /\ nest = NoNest

\* every call of callLLM, runTool and listModels returns, and a call that has returned
\* is resumed
NestFairness ==
    /\ WF_vars(\E reply \in NestReplies : NestLLMReturn(reply))
    /\ WF_vars(NestToolDone)
    /\ WF_vars(\E tasks \in 1..MaxNestTasks : NestPoolStart(tasks))
    /\ WF_vars(NestWorkerReturn)
    /\ WF_vars(NestRunReturn)

SpecNest == InitNest /\ [][NextNest]_vars /\ NestFairness

\* C40: every run comes to its end when every LLM call and every tool call returns,
\* the runs of an agent-plus request whose workers delegate in their turn included.
C40_EveryRunTerminates == (nest.stack # <<>>) ~> (nest.stack = <<>>)

=============================================================================
